---- MODULE Spec2Model ----
(***************************************************************************)
(* A model of the git-tools repository: the parallel executor of the       *)
(* common crate (common/src/parallel.rs), the ownership report of          *)
(* ls-owners (ls-owners/src/main.rs) and the repository discovery of the   *)
(* common crate (common/src/repo/discovery.rs, info.rs, git/url_parser.rs).*)
(* Each subsystem has its own variables and its own specification; a       *)
(* specification leaves the variables of the other subsystems idle.        *)
(***************************************************************************)
EXTENDS Integers, Sequences, FiniteSets, Bags, TLC

\* ------------------------------------------------------------------ bounds
\* Largest number of descriptors handed to ParallelExecutor::new.
MaxRepos == 3
\* Threads of the rayon pool that runs par_iter (at least two).
NumWorkers == 2
\* Largest number of repositories list_github_repos returns.
MaxOrgRepos == 2
\* Largest number of arguments given to RepoDiscovery::new.
MaxPaths == 2
\* Largest number of lines of a CODEOWNERS file.
MaxLines == 2
\* Largest number of code files handed to determine_unowned_paths.
MaxFiles == 2
\* Most lines in the output of git status --porcelain.
MaxStatusLines == 2

\* --------------------------------------------------------------- variables
VARIABLES
    \* ParallelExecutor (common/src/parallel.rs)
    method,        \* which of execute / execute_all / execute_with_state is called
    repos,         \* self.repos: the descriptors, in order
    work_fn,       \* what work_fn returns for the i-th descriptor: "some", "none", "err"
    touches,       \* whether work_fn locks the mutex and pushes the slug for the i-th descriptor
    task_pc,       \* position of the i-th parallel task
    task_out,      \* what the i-th closure handed to filter_map / map
    busy,          \* number of pool threads running a task
    eprintln_log,  \* slug -> number of diagnostic lines written for it
    state_mutex,   \* index of the task holding the Mutex, 0 when free
    guard_copy,    \* what the holder of the guard read from the accumulator
    shared_state,  \* the accumulator inside the Mutex
    exec_ret,      \* the value the call returned
    exec_pc,       \* "running" until the call returns, then "returned"
    \* ls-owners main (ls-owners/src/main.rs)
    org_repos,     \* repos: the slugs list_github_repos returned, in order
    etag_cache,    \* the HashMap inside etag_cache: slug -> ETag
    cache_lock,    \* the slug whose task holds cache_lock, <<>> when free
    own_pc,        \* position of the task of each slug
    response,      \* what req.send() came back with for each slug
    ownership,     \* the Ownership each task fetched
    own_out,       \* what each filter_map closure returned
    own_busy,      \* number of pool threads running a task
    own_log,       \* slug -> number of diagnostic lines written for it
    stuck,         \* slugs whose HTTP request never returns
    main_pc,       \* position of main after the list of repositories is known
    results,       \* results: what the parallel phase collected
    report,        \* the entries printed, in the order printed
    saved_cache,   \* what save_etag_cache wrote
    exit_code,     \* the exit code of the process, -1 while it runs
    \* RepoDiscovery::discover (common/src/repo/discovery.rs)
    paths,         \* self.paths: the arguments, in order
    fs,            \* the directory tree: node -> "none", "dir", "noread", "repo"
    git,           \* what git answers in each repository root
    scanned,       \* number of base paths find_repo_paths has gone through
    repo_paths,    \* repos: the roots find_repo_paths has pushed so far
    disc_errors,   \* the paths an error line was written for, in order
    disc_warnings, \* the identifiers a no-match line was written for, in order
    disc_ret,      \* the list discover returned
    disc_pc,       \* "scanning", "resolving", then "done" (Ok) or "failed" (Err)
    \* load_ownership (ls-owners/src/main.rs)
    codeowners,    \* the file <root>/.github/CODEOWNERS: exists, readable, its lines
    loaded,        \* what load_ownership returned, once called
    \* determine_unowned_paths (ls-owners/src/main.rs)
    table,         \* entries: pattern -> owners
    code_files,    \* code_files: the relative paths, in order
    unowned_dirs,  \* what determine_unowned_paths returned, once called
    \* gather_code_files (ls-owners/src/main.rs)
    worktree,      \* the regular files below the repository root
    gathered,      \* what gather_code_files returned, once called
    \* build_repo_mapping (ls-owners/src/main.rs)
    build_entries, \* entries: key -> owners
    build_unowned, \* unowned: the set of bucket keys
    built,         \* the Mapping build_repo_mapping returned, once called
    \* parse_repospec (clone/src/main.rs), parse_git_url (common/src/git/url_parser.rs)
    url_arg,       \* the string handed to the parsers, with what it was made of
    repospec_ret,  \* what parse_repospec returned, once called
    git_url_ret,   \* what parse_git_url returned, once called
    \* clone (clone/src/main.rs)
    clone_in,      \* the target directory, the options, the key of the org, the status output
    clone_pc,      \* where main is
    git_log,       \* the git commands run so far, in order, each with its outcome
    clone_ret      \* "running", "ok", or the error main returned

execVars == <<method, repos, work_fn, touches, task_pc, task_out, busy,
              eprintln_log, state_mutex, guard_copy, shared_state, exec_ret, exec_pc>>

ownVars == <<org_repos, etag_cache, cache_lock, own_pc, response, ownership, own_out, own_busy,
             own_log, stuck, main_pc, results, report, saved_cache, exit_code>>

discVars == <<paths, fs, git, scanned, repo_paths, disc_errors, disc_warnings,
              disc_ret, disc_pc>>

loadVars == <<codeowners, loaded>>

coverVars == <<table, code_files, unowned_dirs>>

gatherVars == <<worktree, gathered>>

buildVars == <<build_entries, build_unowned, built>>

parseVars == <<url_arg, repospec_ret, git_url_ret>>

cloneVars == <<clone_in, clone_pc, git_log, clone_ret>>

toolVars == <<buildVars, parseVars, cloneVars>>

localVars == <<loadVars, coverVars, gatherVars, toolVars>>

vars == <<execVars, ownVars, discVars, localVars>>

\* ------------------------------------------------------- sequence helpers
RECURSIVE SeqSum(_)
SeqSum(s) == IF s = <<>> THEN 0 ELSE Head(s) + SeqSum(Tail(s))

Count(s, x) == Cardinality({i \in DOMAIN s : s[i] = x})

\* ---------------------------------------------------------------- strings
\* A string is a sequence of one-character strings. The characters the model
\* uses, in ASCII order (str::cmp compares bytes).
AsciiTable == <<"\n", " ", "#", "*", ".", "/", ":", "@", "a", "b", "c", "d", "g",
                "h", "i", "l", "m", "o", "p", "r", "s", "t", "u", "v", "x", "y", "z">>
Ascii(c) == CHOOSE i \in DOMAIN AsciiTable : AsciiTable[i] = c

\* a < b for two strings, as str::cmp orders them.
RECURSIVE StrLess(_, _)
StrLess(a, b) ==
    IF b = <<>> THEN FALSE
    ELSE IF a = <<>> THEN TRUE
    ELSE IF Head(a) = Head(b) THEN StrLess(Tail(a), Tail(b))
    ELSE Ascii(Head(a)) < Ascii(Head(b))

\* char::is_whitespace for the characters of the model.
IsWhitespace(c) == c \in {" ", "\n"}

RECURSIVE TrimStart(_)
TrimStart(s) == IF s # <<>> /\ IsWhitespace(Head(s)) THEN TrimStart(Tail(s)) ELSE s
RECURSIVE TrimEnd(_)
TrimEnd(s) ==
    IF s # <<>> /\ IsWhitespace(s[Len(s)]) THEN TrimEnd(SubSeq(s, 1, Len(s) - 1)) ELSE s
\* str::trim
Trim(s) == TrimEnd(TrimStart(s))

\* str::starts_with
StartsWith(s, p) == Len(p) <= Len(s) /\ SubSeq(s, 1, Len(p)) = p
\* str::ends_with
EndsWith(s, p) == Len(p) <= Len(s) /\ SubSeq(s, Len(s) - Len(p) + 1, Len(s)) = p
\* str::contains
Contains(s, p) == \E i \in 1..(Len(s) - Len(p) + 1) : SubSeq(s, i, i + Len(p) - 1) = p

\* str::trim_start_matches(c): every leading c is removed.
RECURSIVE TrimStartMatches(_, _)
TrimStartMatches(s, c) ==
    IF s # <<>> /\ Head(s) = c THEN TrimStartMatches(Tail(s), c) ELSE s

\* str::trim_end_matches(p): every trailing occurrence of p is removed.
RECURSIVE TrimEndMatches(_, _)
TrimEndMatches(s, p) ==
    IF p # <<>> /\ EndsWith(s, p) THEN TrimEndMatches(SubSeq(s, 1, Len(s) - Len(p)), p) ELSE s

\* str::split(c): the pieces between the occurrences of c, empty ones included.
RECURSIVE SplitOn(_, _, _)
SplitOn(s, c, cur) ==
    IF s = <<>> THEN <<cur>>
    ELSE IF Head(s) = c THEN <<cur>> \o SplitOn(Tail(s), c, <<>>)
    ELSE SplitOn(Tail(s), c, Append(cur, Head(s)))

\* str::lines: split at "\n", without a last empty line.
Lines(text) ==
    LET parts == SplitOn(text, "\n", <<>>)
    IN IF parts[Len(parts)] = <<>> THEN SubSeq(parts, 1, Len(parts) - 1) ELSE parts

\* str::split_whitespace: the maximal runs of non-whitespace characters.
RECURSIVE SplitWhitespace(_, _)
SplitWhitespace(s, cur) ==
    IF s = <<>> THEN (IF cur = <<>> THEN <<>> ELSE <<cur>>)
    ELSE IF IsWhitespace(Head(s))
      THEN (IF cur = <<>> THEN <<>> ELSE <<cur>>) \o SplitWhitespace(Tail(s), <<>>)
      ELSE SplitWhitespace(Tail(s), Append(cur, Head(s)))

Range(f) == {f[x] : x \in DOMAIN f}

\* owners.retain(|o| !exclude.contains(o))
RECURSIVE RetainNotIn(_, _)
RetainNotIn(s, exclude) ==
    IF s = <<>> THEN <<>>
    ELSE (IF Head(s) \in exclude THEN <<>> ELSE <<Head(s)>>) \o RetainNotIn(Tail(s), exclude)

\* Option<String>
None == [some |-> FALSE, val |-> <<>>]
Some(v) == [some |-> TRUE, val |-> v]

\* BTreeMap::insert on a map held as a function.
MapInsert(m, k, v) == [x \in DOMAIN m \cup {k} |-> IF x = k THEN v ELSE m[x]]
EmptyMap == [x \in {} |-> <<>>]

\* ---------------------------------------------------- ParallelExecutor
Methods == {"execute", "execute_all", "execute_with_state"}

\* RepoInfo::new(path, slug), as the tests build them: /test<i>, owner/repo<i>.
RepoInfo(i) == [path |-> <<"/test", i>>, slug |-> <<"owner/repo", i>>]

\* The value a successful invocation computes from its descriptor.
WorkValue(repo) == <<"value-of", repo.slug>>
\* The error a failing invocation returns for its descriptor.
WorkError(repo) == <<"error-of", repo.slug>>

\* What work_fn(repo_info) returns, as a Result.
WorkResult(kind, repo) ==
    CASE kind = "some" -> [tag |-> "Ok", val |-> <<"Some", WorkValue(repo)>>]
      [] kind = "none" -> [tag |-> "Ok", val |-> <<"None">>]
      [] OTHER         -> [tag |-> "Err", val |-> WorkError(repo)]

\* execute's closure written with .ok().flatten(): a failure is dropped silently.
ExecuteMatchSilent(res) ==
    IF res.tag = "Ok" /\ res.val[1] = "Some"
      THEN [keep |-> TRUE, item |-> res.val[2], lines |-> 0]
      ELSE [keep |-> FALSE, item |-> <<>>, lines |-> 0]

\* The match of execute's filter_map closure: what it hands to collect and
\* how many diagnostic lines it writes.
ExecuteMatch(res) ==
    IF res.tag = "Ok"
      THEN IF res.val[1] = "Some"
             THEN [keep |-> TRUE, item |-> res.val[2], lines |-> 0]
             ELSE [keep |-> FALSE, item |-> <<>>, lines |-> 0]
      ELSE [keep |-> FALSE, item |-> <<>>, lines |-> 1]

\* execute_all written with filter_map(Result::ok): a failure is dropped.
ExecuteAllDropsErr(res) ==
    IF res.tag = "Ok"
      THEN [keep |-> TRUE, item |-> [tag |-> "Ok", val |-> res.val[2]], lines |-> 0]
      ELSE [keep |-> FALSE, item |-> <<>>, lines |-> 0]

\* execute_all's map closure: the Result itself, Ok(T) or Err.
ExecuteAllMap(res) ==
    IF res.tag = "Ok"
      THEN [keep |-> TRUE, item |-> [tag |-> "Ok", val |-> res.val[2]], lines |-> 0]
      ELSE [keep |-> TRUE, item |-> res, lines |-> 0]

\* execute_with_state's for_each closure: nothing is collected, an Err is logged.
ExecuteWithStateMatch(res) ==
    [keep |-> FALSE, item |-> <<>>, lines |-> IF res.tag = "Ok" THEN 0 ELSE 1]

Closure(m, res) ==
    CASE m = "execute"     -> ExecuteMatch(res)
      [] m = "execute_all" -> ExecuteAllMap(res)
      [] OTHER             -> ExecuteWithStateMatch(res)

\* collect(): the kept items in the order of the descriptors.
RECURSIVE Collect(_, _)
Collect(outs, i) ==
    IF i > Len(outs) THEN <<>>
    ELSE (IF outs[i].keep THEN <<outs[i].item>> ELSE <<>>) \o Collect(outs, i + 1)

\* A lock that is granted even while another task holds the guard.
MutexAlwaysGranted == TRUE

\* state.lock(): the guard is granted only while nobody holds it.
MutexFree == state_mutex = 0

NoOut == [keep |-> FALSE, item |-> <<>>, lines |-> 0]

ExecInit ==
    /\ method \in Methods
    /\ \E n \in 0..MaxRepos :
         /\ repos = [i \in 1..n |-> RepoInfo(i)]
         /\ work_fn \in [1..n -> IF method = "execute_all" THEN {"some", "err"}
                                 ELSE {"some", "none", "err"}]
         /\ touches \in [1..n -> IF method = "execute_with_state" THEN BOOLEAN ELSE {FALSE}]
         /\ task_pc = [i \in 1..n |-> "pending"]
         /\ task_out = [i \in 1..n |-> NoOut]
         /\ eprintln_log = [s \in {RepoInfo(i).slug : i \in 1..n} |-> 0]
    /\ busy = 0
    /\ state_mutex = 0
    /\ guard_copy = <<>>
    /\ shared_state = <<>>
    /\ exec_ret = <<>>
    /\ exec_pc = "running"

\* A pool thread takes the i-th item of par_iter and enters work_fn.
StartTask(i) ==
    /\ exec_pc = "running"
    /\ task_pc[i] = "pending"
    /\ busy < NumWorkers
    /\ busy' = busy + 1
    /\ task_pc' = [task_pc EXCEPT ![i] = "running"]
    /\ UNCHANGED <<method, repos, work_fn, touches, task_out, eprintln_log,
                   state_mutex, guard_copy, shared_state, exec_ret, exec_pc>>

\* work_fn takes the guard: let mut state = state.lock().unwrap().
LockState(i) ==
    /\ task_pc[i] = "running"
    /\ touches[i]
    /\ MutexFree
    /\ state_mutex' = i
    /\ guard_copy' = shared_state
    /\ task_pc' = [task_pc EXCEPT ![i] = "locked"]
    /\ UNCHANGED <<method, repos, work_fn, touches, task_out, busy, eprintln_log,
                   shared_state, exec_ret, exec_pc>>

\* state.push(slug) through the guard, which is dropped when work_fn returns.
PushState(i) ==
    /\ task_pc[i] = "locked"
    /\ shared_state' = Append(guard_copy, repos[i].slug)
    /\ state_mutex' = 0
    /\ guard_copy' = <<>>
    /\ task_pc' = [task_pc EXCEPT ![i] = "pushed"]
    /\ UNCHANGED <<method, repos, work_fn, touches, task_out, busy, eprintln_log,
                   exec_ret, exec_pc>>

\* work_fn returns and the closure of the called method handles its Result.
FinishTask(i) ==
    /\ \/ task_pc[i] = "running" /\ ~touches[i]
       \/ task_pc[i] = "pushed"
    /\ LET out == Closure(method, WorkResult(work_fn[i], repos[i]))
       IN /\ task_out' = [task_out EXCEPT ![i] = out]
          /\ eprintln_log' = [eprintln_log EXCEPT ![repos[i].slug] = @ + out.lines]
    /\ task_pc' = [task_pc EXCEPT ![i] = "done"]
    /\ busy' = busy - 1
    /\ UNCHANGED <<method, repos, work_fn, touches, state_mutex, guard_copy,
                   shared_state, exec_ret, exec_pc>>

\* A parallel iterator that stops at the first invocation that failed.
ParIterStopsAtError ==
    \/ \A i \in DOMAIN repos : task_pc[i] = "done"
    \/ \E i \in DOMAIN repos : task_pc[i] = "done" /\ work_fn[i] = "err"

\* par_iter() has handed out every item and every closure has returned.
ParIterExhausted == \A i \in DOMAIN repos : task_pc[i] = "done"

\* The parallel iterator is exhausted: collect() / into_inner() and return.
ExecReturn ==
    /\ exec_pc = "running"
    /\ ParIterExhausted
    /\ exec_ret' = IF method = "execute_with_state" THEN shared_state
                   ELSE Collect(task_out, 1)
    /\ exec_pc' = "returned"
    /\ UNCHANGED <<method, repos, work_fn, touches, task_pc, task_out, busy,
                   eprintln_log, state_mutex, guard_copy, shared_state>>


\* ------------------------------------------------------------ ls-owners
\* The slugs of the organisation's repositories.
OrgSlugs == {<<"o", "/", "a">>, <<"o", "/", "b">>, <<"o", "/", "c">>}

\* Owners named in the CODEOWNERS files of the model.
Ali == <<"a", "l", "i">>
Bob == <<"b", "o", "b">>

\* read_ex_employees(org): the names in ~/.config/ls-owners/<org>/ex-employees.
read_ex_employees(org) == {Bob}

\* The part of the slug before the first "/": slug.split('/').next().
OrgOf(slug) == SplitOn(slug, "/", <<>>)[1]

\* The Ownership enum.
Missing == [kind |-> "Missing", entries |-> EmptyMap]
Empty == [kind |-> "Empty", entries |-> EmptyMap]
Present(entries) == [kind |-> "Present", entries |-> entries]

\* The marker strings of the report.
UNOWNED == <<"UNOWNED">>
MISSING_CODEOWNERS == <<"MISSING_CODEOWNERS">>
EMPTY_CODEOWNERS == <<"EMPTY_CODEOWNERS">>

\* One line of a CODEOWNERS text added to the entries: blank lines, comments
\* and lines with fewer than two tokens add nothing; "*" becomes "/"; owners
\* lose their leading "@"; owners in exclude are dropped.
ParseLine(entries, raw, exclude) ==
    LET line == Trim(raw)
        parts == SplitWhitespace(line, <<>>)
    IN IF line = <<>> \/ Head(TrimStart(line)) = "#" THEN entries
       ELSE IF Len(parts) < 2 THEN entries
       ELSE LET pat == IF parts[1] = <<"*">> THEN <<"/">> ELSE parts[1]
                owners == [i \in 1..(Len(parts) - 1) |-> TrimStartMatches(parts[i + 1], "@")]
            IN MapInsert(entries, pat, RetainNotIn(owners, exclude))

RECURSIVE ParseLines(_, _, _)
ParseLines(lines, entries, exclude) ==
    IF lines = <<>> THEN entries
    ELSE ParseLines(Tail(lines), ParseLine(entries, Head(lines), exclude), exclude)

\* The CODEOWNERS texts GitHub serves in the model.
TextComment == <<"#", " ", "c", "\n">>
TextAli == <<"*", " ", "@", "a", "l", "i", "\n">>
TextBob == <<"/", "d", "/", " ", "@", "b", "o", "b", "\n", "*", " ", "@", "a", "l", "i">>
TextDirBob == <<"/", "d", "/", " ", "@", "b", "o", "b", "\n">>
Bodies == {TextComment, TextAli, TextBob, TextDirBob}

NewETag == "etag-new"
OldETag == "etag-old"

\* What req.send() can come back with: a transport error, or a response with a
\* status, possibly an etag header, and a body that decodes or does not.
\* GitHub answers 304 only to a request that carried If-None-Match.
NoResponse == [sent |-> FALSE, status |-> 0, etag |-> "none", decodable |-> FALSE, body |-> <<>>]
Responses(conditional) ==
    {NoResponse}
    \cup {[sent |-> TRUE, status |-> st, etag |-> "none", decodable |-> FALSE, body |-> <<>>] :
            st \in {204, 404, 500} \cup (IF conditional THEN {304} ELSE {})}
    \cup {[sent |-> TRUE, status |-> 200, etag |-> e, decodable |-> FALSE, body |-> <<>>] :
            e \in {"none", NewETag}}
    \cup {[sent |-> TRUE, status |-> 200, etag |-> e, decodable |-> TRUE, body |-> b] :
            e \in {"none", NewETag}, b \in Bodies}

\* fetch_remote_codeowners that forgets the ETag of a repository whose
\* request failed or whose file has not changed.
fetch_remote_codeowners_forgetful(slug, cache, resp) ==
    LET without == [x \in DOMAIN cache \ {slug} |-> cache[x]]
        failed(c) == [ok |-> FALSE, ownership |-> Missing, cache |-> c]
    IN IF ~resp.sent \/ resp.status >= 400 THEN failed(without)
       ELSE IF resp.status = 304
         THEN [ok |-> TRUE, ownership |-> Present(EmptyMap), cache |-> without]
       ELSE IF resp.status = 200
         THEN LET updated == IF resp.etag # "none"
                               THEN MapInsert(cache, slug, resp.etag) ELSE cache
              IN IF ~resp.decodable THEN failed(updated)
                 ELSE LET entries == ParseLines(Lines(resp.body), EmptyMap, read_ex_employees(OrgOf(slug)))
                      IN [ok |-> TRUE,
                          ownership |-> IF DOMAIN entries = {} THEN Empty ELSE Present(entries),
                          cache |-> updated]
       ELSE failed(cache)

\* fetch_remote_codeowners(slug, client, cache) for the response resp:
\* ok is FALSE for Err; cache is the cache afterwards.
fetch_remote_codeowners(slug, cache, resp) ==
    LET exclude == read_ex_employees(OrgOf(slug))
        failed(c) == [ok |-> FALSE, ownership |-> Missing, cache |-> c]
    IN IF ~resp.sent THEN failed(cache)                     \* req.send()?
       ELSE IF resp.status >= 400 THEN failed(cache)        \* .error_for_status()?
       ELSE IF resp.status = 304
         THEN [ok |-> TRUE, ownership |-> Present(EmptyMap), cache |-> cache]
       ELSE IF resp.status = 200
         THEN LET updated == IF resp.etag # "none"
                               THEN MapInsert(cache, slug, resp.etag) ELSE cache
              IN IF ~resp.decodable THEN failed(updated)
                 ELSE LET entries == ParseLines(Lines(resp.body), EmptyMap, exclude)
                      IN [ok |-> TRUE,
                          ownership |-> IF DOMAIN entries = {} THEN Empty ELSE Present(entries),
                          cache |-> updated]
       ELSE IF resp.status = 404
         THEN [ok |-> TRUE, ownership |-> Missing, cache |-> cache]
       ELSE failed(cache)

\* depth of a key in build_repo_mapping's comparator.
Depth(key) ==
    LET inner == TrimEndMatches(TrimStartMatches(key, "/"), <<"/">>)
        pieces == SplitOn(inner, "/", <<>>)
    IN Cardinality({i \in DOMAIN pieces : pieces[i] # <<>>})

\* A comparator that orders the keys by their bytes alone.
KeyLessBytes(a, b) == StrLess(a, b)

\* The comparator of build_repo_mapping's sort_by: a sorts before b.
KeyLess(a, b) ==
    IF a = <<"/">> /\ b # <<"/">> THEN TRUE
    ELSE IF b = <<"/">> /\ a # <<"/">> THEN FALSE
    ELSE IF Depth(a) # Depth(b) THEN Depth(a) < Depth(b)
    ELSE StrLess(a, b)

\* sort_by over a set of distinct keys.
RECURSIVE SortKeys(_)
SortKeys(keys) ==
    IF keys = {} THEN <<>>
    ELSE LET first == CHOOSE k \in keys : \A o \in keys \ {k} : KeyLess(k, o)
         IN <<first>> \o SortKeys(keys \ {first})

\* build_repo_mapping that writes every value as a sequence of owners.
build_repo_mapping_sequences(entries, unowned) ==
    LET all_keys == SortKeys(DOMAIN entries \cup unowned)
        val(key) ==
            IF key \in DOMAIN entries /\ Len(entries[key]) > 0
              THEN [kind |-> "Sequence", v |-> entries[key]]
              ELSE [kind |-> "String", v |-> <<UNOWNED>>]
    IN [i \in DOMAIN all_keys |-> [key |-> all_keys[i], val |-> val(all_keys[i])]]

\* build_repo_mapping(entries, unowned): the ordered mapping path -> owner(s).
\* A value is a Value::String or a Value::Sequence; v holds its strings.
build_repo_mapping(entries, unowned) ==
    LET all_keys == SortKeys(DOMAIN entries \cup unowned)
        val(key) ==
            IF key \in DOMAIN entries
              THEN IF Len(entries[key]) = 0 THEN [kind |-> "String", v |-> <<UNOWNED>>]
                   ELSE IF Len(entries[key]) = 1 THEN [kind |-> "String", v |-> <<entries[key][1]>>]
                   ELSE [kind |-> "Sequence", v |-> entries[key]]
              ELSE [kind |-> "String", v |-> <<UNOWNED>>]
    IN [i \in DOMAIN all_keys |-> [key |-> all_keys[i], val |-> val(all_keys[i])]]

\* try_build_repo(slug, ownership, exclude): the Repo of the report. paths is
\* a Value::String (text) or a Value::Mapping (mapping).
try_build_repo(slug, own, exclude) ==
    IF own.kind = "Missing"
      THEN [slug |-> slug, status |-> "unowned", paths |-> [kind |-> "String", text |-> MISSING_CODEOWNERS, mapping |-> <<>>]]
    ELSE IF own.kind = "Empty"
      THEN [slug |-> slug, status |-> "unowned", paths |-> [kind |-> "String", text |-> EMPTY_CODEOWNERS, mapping |-> <<>>]]
    ELSE LET entries == [k \in DOMAIN own.entries |-> RetainNotIn(own.entries[k], exclude)]
             m == build_repo_mapping(entries, {})
             has_unowned == \E i \in DOMAIN m : m[i].val.kind = "String" /\ m[i].val.v = <<UNOWNED>>
         IN [slug |-> slug,
             status |-> IF has_unowned THEN "partial" ELSE "owned",
             paths |-> [kind |-> "Mapping", text |-> <<>>, mapping |-> m]]

\* rank of sorted_entries.
rank(status) ==
    CASE status = "unowned" -> 0
      [] status = "partial" -> 1
      [] status = "owned"   -> 2
      [] OTHER              -> 3

\* A comparator that forgets the then_with on the slug.
RepoLessByRankOnly(a, b) == rank(a.status) < rank(b.status)

\* The comparator of sorted_entries' sort_by: a sorts strictly before b.
RepoLess(a, b) ==
    IF rank(a.status) # rank(b.status) THEN rank(a.status) < rank(b.status)
    ELSE StrLess(a.slug, b.slug)

\* Stable insertion of x into a sorted sequence: after every entry that does
\* not sort after it.
RECURSIVE InsertRepo(_, _)
InsertRepo(sorted, x) ==
    IF sorted = <<>> THEN <<x>>
    ELSE IF RepoLess(x, Head(sorted)) THEN <<x>> \o sorted
    ELSE <<Head(sorted)>> \o InsertRepo(Tail(sorted), x)

\* sorted_entries(results): a stable sort by status rank, then slug.
RECURSIVE sorted_entries(_)
sorted_entries(rs) ==
    IF rs = <<>> THEN <<>>
    ELSE InsertRepo(sorted_entries(SubSeq(rs, 1, Len(rs) - 1)), rs[Len(rs)])

\* A closure that logs the failure but goes on to report the repository.
FetchMatchReportsFailure(fetched) ==
    [continue |-> TRUE, lines |-> IF fetched.ok THEN 0 ELSE 1]

\* The match on fetch_remote_codeowners in main's closure: an Err is logged
\* and the closure returns None.
FetchMatch(fetched) ==
    IF fetched.ok THEN [continue |-> TRUE, lines |-> 0]
    ELSE [continue |-> FALSE, lines |-> 1]

\* The exit code main computes from results.
ExitCode(rs) == IF \E i \in DOMAIN rs : rs[i].status # "owned" THEN 1 ELSE 0

\* Lists of distinct slugs of at most n entries.
DistinctLists(n) ==
    UNION {{q \in [1..k -> OrgSlugs] : \A i, j \in 1..k : i # j => q[i] # q[j]} : k \in 0..n}

NoRepo == [keep |-> FALSE, item |-> <<>>]
NoLock == <<>>

OwnInitWith(stuckSets) ==
    /\ org_repos \in DistinctLists(MaxOrgRepos)
    /\ \E cached \in SUBSET Range(org_repos) : etag_cache = [x \in cached |-> OldETag]
    /\ stuck \in stuckSets
    /\ stuck \subseteq Range(org_repos)
    /\ cache_lock = NoLock
    /\ own_pc = [x \in Range(org_repos) |-> "pending"]
    /\ response = [x \in Range(org_repos) |-> NoResponse]
    /\ ownership = [x \in Range(org_repos) |-> Missing]
    /\ own_out = [x \in Range(org_repos) |-> NoRepo]
    /\ own_log = [x \in Range(org_repos) |-> 0]
    /\ own_busy = 0
    /\ main_pc = "parallel"
    /\ results = <<>>
    /\ report = <<>>
    /\ saved_cache = EmptyMap
    /\ exit_code = -1

OwnInit == OwnInitWith({{}})

\* A pool thread takes the slug from into_par_iter and enters the closure.
StartOwner(x) ==
    /\ x \in Range(org_repos)
    /\ main_pc = "parallel"
    /\ own_pc[x] = "pending"
    /\ own_busy < NumWorkers
    /\ own_busy' = own_busy + 1
    /\ own_pc' = [own_pc EXCEPT ![x] = "started"]
    /\ UNCHANGED <<org_repos, etag_cache, cache_lock, response, ownership, own_out, own_log, stuck,
                   main_pc, results, report, saved_cache, exit_code>>

\* etag_cache.lock() is granted and fetch_remote_codeowners sends its request.
LockAndSend(x) ==
    /\ x \in Range(org_repos)
    /\ own_pc[x] = "started"
    /\ cache_lock = NoLock
    /\ cache_lock' = x
    /\ own_pc' = [own_pc EXCEPT ![x] = "sending"]
    /\ UNCHANGED <<org_repos, etag_cache, response, ownership, own_out, own_busy, own_log, stuck,
                   main_pc, results, report, saved_cache, exit_code>>

\* req.send() returns and fetch_remote_codeowners runs to its end; the guard
\* is dropped at the end of the block, or by the return None of the Err arm.
Respond(x) ==
    /\ x \in Range(org_repos)
    /\ own_pc[x] = "sending"
    /\ x \notin stuck
    /\ \E resp \in Responses(x \in DOMAIN etag_cache) :
         LET fetched == fetch_remote_codeowners(x, etag_cache, resp)
             m == FetchMatch(fetched)
         IN /\ response' = [response EXCEPT ![x] = resp]
            /\ etag_cache' = fetched.cache
            /\ own_log' = [own_log EXCEPT ![x] = @ + m.lines]
            /\ IF m.continue
                 THEN /\ ownership' = [ownership EXCEPT ![x] = fetched.ownership]
                      /\ own_pc' = [own_pc EXCEPT ![x] = "fetched"]
                      /\ own_busy' = own_busy
                 ELSE /\ ownership' = ownership
                      /\ own_pc' = [own_pc EXCEPT ![x] = "done"]
                      /\ own_busy' = own_busy - 1
    /\ cache_lock' = NoLock
    /\ UNCHANGED <<org_repos, own_out, stuck, main_pc, results, report, saved_cache, exit_code>>

\* read_ex_employees and try_build_repo: the closure returns Some(repo).
BuildRepo(x) ==
    /\ x \in Range(org_repos)
    /\ own_pc[x] = "fetched"
    /\ LET exclude == read_ex_employees(OrgOf(x))
       IN own_out' = [own_out EXCEPT ![x] =
                        [keep |-> TRUE, item |-> try_build_repo(x, ownership[x], exclude)]]
    /\ own_pc' = [own_pc EXCEPT ![x] = "done"]
    /\ own_busy' = own_busy - 1
    /\ UNCHANGED <<org_repos, etag_cache, cache_lock, response, ownership, own_log, stuck,
                   main_pc, results, report, saved_cache, exit_code>>

\* collect(), then step 7: sort and print.
SortAndPrint ==
    /\ main_pc = "parallel"
    /\ \A x \in Range(org_repos) : own_pc[x] = "done"
    /\ LET collected == Collect([i \in DOMAIN org_repos |-> own_out[org_repos[i]]], 1)
       IN /\ results' = collected
          /\ report' = sorted_entries(collected)
    /\ main_pc' = "printed"
    /\ UNCHANGED <<org_repos, etag_cache, cache_lock, own_pc, response, ownership, own_out, own_busy,
                   own_log, stuck, saved_cache, exit_code>>

\* Step 8: save_etag_cache succeeds.
SaveCache ==
    /\ main_pc = "printed"
    /\ saved_cache' = etag_cache
    /\ main_pc' = "saved"
    /\ UNCHANGED <<org_repos, etag_cache, cache_lock, own_pc, response, ownership, own_out, own_busy,
                   own_log, stuck, results, report, exit_code>>

\* Step 8: save_etag_cache fails and main returns the error: the process
\* exits with the failure code of an Err returned from main.
SaveCacheFails ==
    /\ main_pc = "printed"
    /\ main_pc' = "failed"
    /\ exit_code' = 1
    /\ UNCHANGED <<org_repos, etag_cache, cache_lock, own_pc, response, ownership, own_out, own_busy,
                   own_log, stuck, results, report, saved_cache>>

\* Step 9: exit(exit_code).
Exit ==
    /\ main_pc = "saved"
    /\ exit_code' = ExitCode(results)
    /\ main_pc' = "exited"
    /\ UNCHANGED <<org_repos, etag_cache, cache_lock, own_pc, response, ownership, own_out, own_busy,
                   own_log, stuck, results, report, saved_cache>>


\* ------------------------------------------------------- load_ownership
\* The lines a CODEOWNERS file of the model is made of. Each comes with what
\* it is: blank, a comment, or a rule with its first token and the owner
\* names that follow it.
LineBlank == [text |-> <<" ", " ">>, kind |-> "blank", pattern |-> <<>>, owners |-> <<>>]
LineComment == [text |-> <<" ", " ", "#", " ", "c">>, kind |-> "comment", pattern |-> <<>>, owners |-> <<>>]
LineStar == [text |-> <<"*", " ", "@", "a", "l", "i">>, kind |-> "rule", pattern |-> <<"*">>, owners |-> <<Ali>>]
LineRoot == [text |-> <<"/", " ", "@", "b", "o", "b">>, kind |-> "rule", pattern |-> <<"/">>, owners |-> <<Bob>>]
LineDirBob == [text |-> <<"/", "d", "/", " ", "@", "b", "o", "b">>, kind |-> "rule",
               pattern |-> <<"/", "d", "/">>, owners |-> <<Bob>>]
LineDirBoth == [text |-> <<" ", "/", "d", "/", " ", " ", "@", "a", "l", "i", " ", "b", "o", "b", " ">>, kind |-> "rule",
                pattern |-> <<"/", "d", "/">>, owners |-> <<Ali, Bob>>]
LineDirOnly == [text |-> <<"/", "d", "/">>, kind |-> "rule",
                pattern |-> <<"/", "d", "/">>, owners |-> <<>>]
CodeownersLines ==
    {LineBlank, LineComment, LineStar, LineRoot, LineDirBob, LineDirBoth, LineDirOnly}

\* The text of a file made of the given lines, each ended by a newline.
RECURSIVE ContentOf(_)
ContentOf(lines) ==
    IF lines = <<>> THEN <<>> ELSE Head(lines).text \o <<"\n">> \o ContentOf(Tail(lines))

NoFile == [exists |-> FALSE, readable |-> FALSE, lines |-> <<>>]
NotLoaded == [called |-> FALSE, ok |-> FALSE, ownership |-> Missing]

\* One iteration of the loop of load_ownership that keeps the first owner
\* list of a pattern instead of the last.
LoadLineFirstWins(entries, raw) ==
    LET line == Trim(raw)
        parts == SplitWhitespace(line, <<>>)
    IN IF line = <<>> \/ Head(TrimStart(line)) = "#" THEN entries
       ELSE IF Len(parts) < 2 THEN entries
       ELSE LET pat == IF parts[1] = <<"*">> THEN <<"/">> ELSE parts[1]
                owners == [i \in 1..(Len(parts) - 1) |-> TrimStartMatches(parts[i + 1], "@")]
            IN IF pat \in DOMAIN entries THEN entries ELSE MapInsert(entries, pat, owners)

\* One iteration of the loop of load_ownership that keeps "*" as the pattern.
LoadLineKeepsStar(entries, raw) ==
    LET line == Trim(raw)
        parts == SplitWhitespace(line, <<>>)
    IN IF line = <<>> \/ Head(TrimStart(line)) = "#" THEN entries
       ELSE IF Len(parts) < 2 THEN entries
       ELSE LET owners == [i \in 1..(Len(parts) - 1) |-> TrimStartMatches(parts[i + 1], "@")]
            IN MapInsert(entries, parts[1], owners)

\* One iteration of the loop of load_ownership: blank lines, comments and
\* lines with fewer than two tokens add nothing; "*" becomes "/"; owners lose
\* their leading "@"; the entry replaces the one the pattern had.
LoadLine(entries, raw) ==
    LET line == Trim(raw)
        parts == SplitWhitespace(line, <<>>)
    IN IF line = <<>> \/ Head(TrimStart(line)) = "#" THEN entries
       ELSE IF Len(parts) < 2 THEN entries
       ELSE LET pat == IF parts[1] = <<"*">> THEN <<"/">> ELSE parts[1]
                owners == [i \in 1..(Len(parts) - 1) |-> TrimStartMatches(parts[i + 1], "@")]
            IN MapInsert(entries, pat, owners)

RECURSIVE LoadLines(_, _)
LoadLines(lines, entries) ==
    IF lines = <<>> THEN entries ELSE LoadLines(Tail(lines), LoadLine(entries, Head(lines)))

\* load_ownership that returns Present whatever the number of entries.
load_ownership_always_present(file) ==
    IF ~file.exists THEN [called |-> TRUE, ok |-> TRUE, ownership |-> Missing]
    ELSE IF ~file.readable THEN [called |-> TRUE, ok |-> FALSE, ownership |-> Missing]
    ELSE [called |-> TRUE, ok |-> TRUE,
          ownership |-> Present(LoadLines(Lines(ContentOf(file.lines)), EmptyMap))]

\* load_ownership(root): Missing without a file, an error when the file
\* cannot be read, else Empty or Present by the entries parsed.
load_ownership(file) ==
    IF ~file.exists THEN [called |-> TRUE, ok |-> TRUE, ownership |-> Missing]
    ELSE IF ~file.readable THEN [called |-> TRUE, ok |-> FALSE, ownership |-> Missing]
    ELSE LET entries == LoadLines(Lines(ContentOf(file.lines)), EmptyMap)
         IN [called |-> TRUE, ok |-> TRUE,
             ownership |-> IF DOMAIN entries = {} THEN Empty ELSE Present(entries)]

LoadInit ==
    /\ codeowners \in
         {NoFile, [exists |-> TRUE, readable |-> FALSE, lines |-> <<>>]}
         \cup {[exists |-> TRUE, readable |-> TRUE, lines |-> ls] :
                  ls \in UNION {[1..k -> CodeownersLines] : k \in 0..MaxLines}}
    /\ loaded = NotLoaded

LoadOwnership ==
    /\ ~loaded.called
    /\ loaded' = load_ownership(codeowners)
    /\ UNCHANGED codeowners

\* ----------------------------------------------- determine_unowned_paths
\* The relative paths of the model, each with the directories it goes
\* through.
FileTop == [rel |-> <<"a", ".", "p", "y">>, dirs |-> <<>>]
FileD == [rel |-> <<"d", "/", "b", ".", "p", "y">>, dirs |-> <<<<"d">>>>]
FileDE == [rel |-> <<"d", "/", "e", "/", "c", ".", "p", "y">>, dirs |-> <<<<"d">>, <<"e">>>>]
FileDD == [rel |-> <<"d", "d", "/", "x", ".", "p", "y">>, dirs |-> <<<<"d", "d">>>>]
FileSrc == [rel |-> <<"s", "r", "c", "/", "a", "/", "b", ".", "p", "y">>, dirs |-> <<<<"s", "r", "c">>, <<"a">>>>]
RelFiles == {FileTop, FileD, FileDE, FileDD, FileSrc}

\* The patterns an ownership table of the model may hold.
TablePatterns == {<<"/">>, <<"/", "d", "/">>, <<"/", "d">>, <<"/", "a">>, <<"/", "s", "r", "c", "/", "a", "/">>}

NotDetermined == [called |-> FALSE, dirs |-> {}]

\* s.split('/').filter(|c| !c.is_empty()).collect()
NonEmptyComponents(s) ==
    LET IsNonEmpty(c) == c # <<>>
    IN SelectSeq(SplitOn(s, "/", <<>>), IsNonEmpty)

\* The bucket determine_unowned_paths inserts for an uncovered "/" + path.
UnownedDir(s) ==
    LET comps == NonEmptyComponents(s)
    IN IF Len(comps) <= 1 THEN <<"/">> ELSE <<"/">> \o comps[1] \o <<"/">>

\* determine_unowned_paths that matches the patterns against the relative
\* path without the leading "/".
RECURSIVE determine_unowned_paths_no_slash(_, _)
determine_unowned_paths_no_slash(entries, files) ==
    IF files = <<>> THEN {}
    ELSE LET s == Head(files)
             covered == \E pat \in DOMAIN entries : StartsWith(s, pat)
         IN (IF covered THEN {} ELSE {UnownedDir(s)})
                \cup determine_unowned_paths_no_slash(entries, Tail(files))

\* determine_unowned_paths(entries, code_files)
RECURSIVE determine_unowned_paths(_, _)
determine_unowned_paths(entries, files) ==
    IF files = <<>> THEN {}
    ELSE LET s == <<"/">> \o Head(files)
             covered == \E pat \in DOMAIN entries : StartsWith(s, pat)
         IN (IF covered THEN {} ELSE {UnownedDir(s)})
                \cup determine_unowned_paths(entries, Tail(files))

CoverInit ==
    /\ table \in {[pat \in P |-> <<Ali>>] : P \in SUBSET TablePatterns}
    /\ code_files \in UNION {[1..k -> RelFiles] : k \in 0..MaxFiles}
    /\ unowned_dirs = NotDetermined

DetermineUnowned ==
    /\ ~unowned_dirs.called
    /\ unowned_dirs' =
         [called |-> TRUE,
          dirs |-> determine_unowned_paths(table, [i \in DOMAIN code_files |-> code_files[i].rel])]
    /\ UNCHANGED <<table, code_files>>

\* ---------------------------------------------------- build_repo_mapping
\* The keys of the model, each with its number of non-empty segments and its
\* place in ascending byte order.
KeyRoot == [text |-> <<"/">>, depth |-> 0, lex |-> 1]
KeyA == [text |-> <<"/", "a">>, depth |-> 1, lex |-> 2]
KeyAB == [text |-> <<"/", "a", "/", "b", "/">>, depth |-> 2, lex |-> 3]
KeyDocs == [text |-> <<"/", "d", "o", "c", "s", "/">>, depth |-> 1, lex |-> 4]
BuildKeys == {KeyRoot, KeyA, KeyAB, KeyDocs}

\* The owner lists an entry of the model may hold.
OwnerLists == {<<>>, <<Ali>>, <<Bob>>, <<Ali, Bob>>}

NotBuilt == [called |-> FALSE, map |-> <<>>]

BuildInit ==
    /\ build_entries \in
         UNION {[{k.text : k \in K} -> OwnerLists] : K \in SUBSET BuildKeys}
    /\ build_unowned \in {{k.text : k \in K} : K \in SUBSET BuildKeys}
    /\ built = NotBuilt

BuildMapping ==
    /\ ~built.called
    /\ built' = [called |-> TRUE, map |-> build_repo_mapping(build_entries, build_unowned)]
    /\ UNCHANGED <<build_entries, build_unowned>>

\* ----------------------------------------------------- gather_code_files
\* The extensions is_code_file accepts.
CodeExtensions ==
    {<<"p", "y">>,
     <<"j", "s">>,
     <<"j", "s", "x">>,
     <<"t", "s">>,
     <<"t", "s", "x">>,
     <<"c", "s", "s">>,
     <<"h", "t", "m", "l">>,
     <<"t", "f">>,
     <<"y", "a", "m", "l">>,
     <<"y", "m", "l">>,
     <<"t", "o", "m", "l">>,
     <<"t", "p", "l">>}

\* The extensions of the file names of the model, each with its lowercase
\* spelling: none, the accepted ones, PY, Tf, md, pyc and the empty extension
\* of a name that ends with a dot.
NoExtension == [some |-> FALSE, val |-> <<>>, lower |-> <<>>]
FileExtensions ==
    {NoExtension} \cup {[some |-> TRUE, val |-> e, lower |-> e] : e \in CodeExtensions}
    \cup {[some |-> TRUE, val |-> <<"P", "Y">>, lower |-> <<"p", "y">>],
          [some |-> TRUE, val |-> <<"T", "f">>, lower |-> <<"t", "f">>],
          [some |-> TRUE, val |-> <<"m", "d">>, lower |-> <<"m", "d">>],
          [some |-> TRUE, val |-> <<"p", "y", "c">>, lower |-> <<"p", "y", "c">>],
          [some |-> TRUE, val |-> <<>>, lower |-> <<>>]}

\* What comes before the extension; a name that starts with its only dot,
\* such as .py, has no extension.
Dockerfile == <<"D", "o", "c", "k", "e", "r", "f", "i", "l", "e">>
Makefile == <<"M", "a", "k", "e", "f", "i", "l", "e">>
FileStems == {<<"a">>, Dockerfile, Makefile, <<"m", "a", "k", "e", "f", "i", "l", "e">>, <<".", "p", "y">>}

\* The directories of the model, as the components below the repository root.
DotGitDir == <<".", "g", "i", "t">>
DotGithubDir == <<".", "g", "i", "t", "h", "u", "b">>
SrcDir == <<"s", "r", "c">>
FileDirs == {<<>>, <<SrcDir>>, <<SrcDir, <<"a">>>>, <<DotGitDir>>, <<DotGithubDir>>,
             <<SrcDir, DotGithubDir>>}

\* Files a work tree of the model may hold next to the one under test.
BackgroundFiles ==
    {[dirs |-> <<>>, stem |-> <<"a">>, ext |-> [some |-> TRUE, val |-> <<"p", "y">>, lower |-> <<"p", "y">>]],
     [dirs |-> <<SrcDir, <<"a">>>>, stem |-> <<"b">>, ext |-> [some |-> TRUE, val |-> <<"p", "y">>, lower |-> <<"p", "y">>]],
     [dirs |-> <<DotGithubDir>>, stem |-> <<"w">>, ext |-> [some |-> TRUE, val |-> <<"y", "m", "l">>, lower |-> <<"y", "m", "l">>]]}

\* The name of the directory entry of a file.
FileName(f) == IF f.ext.some THEN f.stem \o <<".">> \o f.ext.val ELSE f.stem

\* Path::extension on a file name: what follows the last dot, unless the name
\* has no dot or starts with its only dot.
Extension(name) ==
    LET dots == {i \in DOMAIN name : name[i] = "."}
        last == CHOOSE i \in dots : \A j \in dots : j <= i
    IN IF dots = {} \/ last = 1 THEN None
       ELSE Some(SubSeq(name, last + 1, Len(name)))

\* str::to_lowercase for the characters of the model.
ToLowercase(s) ==
    [i \in DOMAIN s |->
        CASE s[i] = "D" -> "d" [] s[i] = "M" -> "m" [] s[i] = "P" -> "p"
          [] s[i] = "T" -> "t" [] s[i] = "Y" -> "y" [] OTHER -> s[i]]

\* is_code_file that compares the extension as it is spelled.
is_code_file_case_sensitive(name) ==
    \/ name = Dockerfile \/ name = Makefile
    \/ Extension(name).some /\ Extension(name).val \in CodeExtensions

\* is_code_file(path), on the file name of the path.
is_code_file(name) ==
    \/ name = Dockerfile \/ name = Makefile
    \/ Extension(name).some /\ ToLowercase(Extension(name).val) \in CodeExtensions

\* Path::strip_prefix(root).unwrap() on component lists.
StripPathPrefix(path, root) == SubSeq(path, Len(root) + 1, Len(path))

NotGathered == [called |-> FALSE, files |-> EmptyBag]

\* gather_code_files(root), root given by its components below the repository
\* root. The Vec is held as a bag: read_dir lists in no specified order. Each
\* recursive call strips its own root from the paths it pushes.
RECURSIVE gather_code_files(_), GatherSubdirs(_)
gather_code_files(root) ==
    LET below == {f \in worktree : Len(f.dirs) > Len(root) /\ SubSeq(f.dirs, 1, Len(root)) = root}
        subdirs == {SubSeq(f.dirs, 1, Len(root) + 1) : f \in below}
        entered == {d \in subdirs : d[Len(d)] \notin {DotGitDir, DotGithubDir}}
        pushed == {StripPathPrefix(root \o <<FileName(f)>>, root) :
                      f \in {g \in worktree : g.dirs = root /\ is_code_file(FileName(g))}}
    IN SetToBag(pushed) (+) GatherSubdirs(entered)
GatherSubdirs(dirs) ==
    IF dirs = {} THEN EmptyBag
    ELSE LET d == CHOOSE x \in dirs : TRUE
         IN gather_code_files(d) (+) GatherSubdirs(dirs \ {d})

GatherInit ==
    /\ worktree \in
         {{[dirs |-> d, stem |-> st, ext |-> e]} \cup B :
             d \in FileDirs, st \in FileStems, e \in FileExtensions, B \in SUBSET BackgroundFiles}
    /\ gathered = NotGathered

GatherCodeFiles ==
    /\ ~gathered.called
    /\ gathered' = [called |-> TRUE, files |-> gather_code_files(<<>>)]
    /\ UNCHANGED worktree

\* ---------------------------------------------------------- RepoDiscovery

SshPrefix == <<"g", "i", "t", "@", "g", "i", "t", "h", "u", "b", ".", "c", "o", "m", ":">>
HttpsPrefix == <<"h", "t", "t", "p", "s", ":", "/", "/", "g", "i", "t", "h", "u", "b", ".", "c", "o", "m", "/">>
DotGit == <<".", "g", "i", "t">>
UnknownSlug == <<"u", "n", "k", "n", "o", "w", "n", "/", "u", "n", "k", "n", "o", "w", "n">>

\* str::strip_prefix
StripPrefix(s, p) == IF StartsWith(s, p) THEN Some(SubSeq(s, Len(p) + 1, Len(s))) ELSE None

\* parse_git_url(url)
parse_git_url(url) ==
    IF StripPrefix(url, SshPrefix).some
      THEN Some(TrimEndMatches(StripPrefix(url, SshPrefix).val, DotGit))
    ELSE IF StripPrefix(url, HttpsPrefix).some
      THEN Some(TrimEndMatches(StripPrefix(url, HttpsPrefix).val, DotGit))
    ELSE None

\* The directory tree below the working directory: ./a and ./b, ./a/x and
\* ./a/y below ./a, and ./a/y/d at depth three.
Dot == <<".">>
NodeA == <<".", "/", "a">>
NodeB == <<".", "/", "b">>
NodeX == <<".", "/", "a", "/", "x">>
NodeY == <<".", "/", "a", "/", "y">>
NodeD == <<".", "/", "a", "/", "y", "/", "d">>
Nodes == {Dot, NodeA, NodeB, NodeX, NodeY, NodeD}
ChildNodes(n) ==
    CASE n = Dot   -> {NodeA, NodeB}
      [] n = NodeA -> {NodeX, NodeY}
      [] n = NodeY -> {NodeD}
      [] OTHER     -> {}

\* What git answers in a repository root: whether rev-parse --show-toplevel
\* succeeds, what remote get-url origin prints, and the owner/name the origin
\* stands for when it is a GitHub URL (<<>> when it is not).
GitSshOX == [toplevel_ok |-> TRUE, github |-> <<"o", "/", "x">>,
             url_stdout |-> SshPrefix \o <<"o", "/", "x", ".", "g", "i", "t", "\n">>]
GitHttpsOY == [toplevel_ok |-> TRUE, github |-> <<"o", "/", "y">>,
               url_stdout |-> HttpsPrefix \o <<"o", "/", "y", "\n">>]
GitLocal == [toplevel_ok |-> TRUE, github |-> <<>>, url_stdout |-> <<"/", "s", "r", "v", "/", "x", ".", "g", "i", "t", "\n">>]
GitBroken == [toplevel_ok |-> FALSE, github |-> <<>>, url_stdout |-> <<>>]
GitAnswers == {GitSshOX, GitHttpsOY, GitLocal, GitBroken}

\* The trees of the model: the working directory and ./a exist, a directory
\* may be unreadable, and a root may hold nested roots. Below an unreadable
\* working directory only ./a and ./a/x vary.
FsTrees ==
    {f \in [Nodes -> {"none", "dir", "noread", "repo"}] :
        /\ f[Dot] \in {"dir", "noread"}
        /\ f[NodeA] \in {"dir", "noread", "repo"}
        /\ f[NodeB] \in {"none", "repo"}
        /\ f[NodeX] \in {"none", "repo"}
        /\ f[NodeY] \in {"none", "dir", "repo"}
        /\ f[NodeD] \in {"none", "repo"}
        /\ (f[NodeA] = "noread" => f[NodeX] = "none" /\ f[NodeY] = "none")
        /\ (f[NodeA] = "repo" => f[NodeY] = "none")
        /\ (f[NodeY] # "dir" => f[NodeD] = "none")
        /\ (f[Dot] = "noread" =>
               f[NodeA] # "repo" /\ f[NodeB] = "none" /\ f[NodeY] = "none")}

\* The arguments of the model: the working directory, ./a/ with a trailing
\* slash, ./b (a directory only if it exists) and the bare identifier x.
ArgDot == <<".">>
ArgA == <<".", "/", "a", "/">>
ArgB == <<".", "/", "b">>
ArgX == <<"x">>
Args == {ArgDot, ArgA, ArgB, ArgX}

\* The node a path names: PathBuf ignores a trailing slash.
NodeOfPath(p) == IF Len(p) > 1 /\ p[Len(p)] = "/" THEN SubSeq(p, 1, Len(p) - 1) ELSE p

\* Path::is_dir
IsDir(p) == NodeOfPath(p) \in Nodes /\ fs[NodeOfPath(p)] \in {"dir", "noread", "repo"}

\* is_git_repo(path): path.join(".git").is_dir()
is_git_repo(p) == NodeOfPath(p) \in Nodes /\ fs[NodeOfPath(p)] = "repo"

\* The orders in which fs::read_dir may list the entries of each directory.
Perms(S) == {q \in [1..Cardinality(S) -> S] : \A i, j \in DOMAIN q : i # j => q[i] # q[j]}
Listing(n) == {c \in ChildNodes(n) : fs[c] # "none"}
ReadDirOrders ==
    {[n \in Nodes |-> CASE n = Dot   -> d
                        [] n = NodeA -> a
                        [] n = NodeY -> y
                        [] OTHER     -> <<>>] :
        d \in Perms(Listing(Dot)), a \in Perms(Listing(NodeA)), y \in Perms(Listing(NodeY))}
ReadDir(ord, n) == ord[n]

\* The inner loops written as a full recursive walk: a plain directory is
\* descended into at every depth.
RECURSIVE ScanEntriesRecursive(_, _)
ScanEntriesRecursive(entries, ord) ==
    IF entries = <<>> THEN [ok |-> TRUE, found |-> <<>>]
    ELSE LET child == Head(entries)
             here == IF is_git_repo(child) THEN [ok |-> TRUE, found |-> <<child>>]
                     ELSE IF IsDir(child)
                       THEN IF fs[child] = "noread" THEN [ok |-> FALSE, found |-> <<>>]
                            ELSE ScanEntriesRecursive(ReadDir(ord, child), ord)
                     ELSE [ok |-> TRUE, found |-> <<>>]
             rest == ScanEntriesRecursive(Tail(entries), ord)
         IN IF ~here.ok THEN here
            ELSE IF ~rest.ok THEN rest
            ELSE [ok |-> TRUE, found |-> here.found \o rest.found]

\* The inner loops of find_repo_paths over the entries of one directory:
\* ok is FALSE when a read_dir fails, found are the roots pushed.
RECURSIVE ScanEntries(_, _)
ScanEntries(entries, ord) ==
    IF entries = <<>> THEN [ok |-> TRUE, found |-> <<>>]
    ELSE LET child == Head(entries)
             here == IF is_git_repo(child) THEN [ok |-> TRUE, found |-> <<child>>]
                     ELSE IF IsDir(child)
                       THEN IF fs[child] = "noread" THEN [ok |-> FALSE, found |-> <<>>]
                            ELSE [ok |-> TRUE, found |-> SelectSeq(ReadDir(ord, child), is_git_repo)]
                     ELSE [ok |-> TRUE, found |-> <<>>]
             rest == ScanEntries(Tail(entries), ord)
         IN IF ~here.ok THEN here
            ELSE IF ~rest.ok THEN rest
            ELSE [ok |-> TRUE, found |-> here.found \o rest.found]

\* One iteration of the outer loop of find_repo_paths, for the path p.
ScanOnePath(p, ord) ==
    IF is_git_repo(p) THEN [ok |-> TRUE, found |-> <<p>>]
    ELSE IF IsDir(p)
      THEN IF fs[NodeOfPath(p)] = "noread" THEN [ok |-> FALSE, found |-> <<>>]
           ELSE ScanEntries(ReadDir(ord, NodeOfPath(p)), ord)
    ELSE [ok |-> TRUE, found |-> <<>>]

\* The path git rev-parse --show-toplevel prints for a root: absolute.
Toplevel(p) == <<"/", "w">> \o Tail(NodeOfPath(p))

\* find_repo_root_and_slug written with ok_or_else: an origin that does not
\* parse is an error.
find_repo_root_and_slug_strict(p) ==
    LET g == git[NodeOfPath(p)]
        parsed == parse_git_url(Trim(g.url_stdout))
    IN IF ~g.toplevel_ok \/ ~parsed.some THEN [ok |-> FALSE, info |-> <<>>]
       ELSE [ok |-> TRUE, info |-> [path |-> Toplevel(p), slug |-> parsed.val]]

\* find_repo_root_and_slug(path), which is all RepoInfo::from_path does.
find_repo_root_and_slug(p) ==
    LET g == git[NodeOfPath(p)]
        parsed == parse_git_url(Trim(g.url_stdout))
    IN IF ~g.toplevel_ok THEN [ok |-> FALSE, info |-> <<>>]
       ELSE [ok |-> TRUE,
             info |-> [path |-> Toplevel(p),
                       slug |-> IF parsed.some THEN parsed.val ELSE UnknownSlug]]

\* The first loop of discover: directory paths and bare identifiers.
IsDirectoryArg(p) == p = <<".">> \/ EndsWith(p, <<"/">>) \/ IsDir(p)
IsIdentifierArg(p) == ~IsDirectoryArg(p)
directory_paths == SelectSeq(paths, IsDirectoryArg)
repo_identifiers == SelectSeq(paths, IsIdentifierArg)

\* The paths find_repo_paths / find_repo_paths_from_base goes through.
base_paths ==
    IF repo_identifiers = <<>> THEN paths
    ELSE IF directory_paths = <<>> THEN <<Dot>> ELSE directory_paths

\* The filter_map closure of discover_all_repos over the roots, in order.
RECURSIVE ResolveAll(_)
ResolveAll(roots) ==
    IF roots = <<>> THEN [repos |-> <<>>, errors |-> <<>>]
    ELSE LET r == find_repo_root_and_slug(Head(roots))
             rest == ResolveAll(Tail(roots))
         IN IF r.ok THEN [repos |-> <<r.info>> \o rest.repos, errors |-> rest.errors]
            ELSE [repos |-> rest.repos, errors |-> <<Head(roots)>> \o rest.errors]

\* The match with the exact loop only: the contains loop is left out.
MatchesIdentifierExact(info) ==
    \E k \in DOMAIN repo_identifiers :
        info.slug = repo_identifiers[k] \/ info.path = repo_identifiers[k]

\* The match of discover's filter_map closure: exact, then contains.
MatchesIdentifier(info) ==
    \/ \E k \in DOMAIN repo_identifiers :
           info.slug = repo_identifiers[k] \/ info.path = repo_identifiers[k]
    \/ \E k \in DOMAIN repo_identifiers : Contains(info.slug, repo_identifiers[k])

\* The deduplication loop of discover: the first descriptor of a slug is kept.
RECURSIVE Dedup(_, _)
Dedup(infos, used) ==
    IF infos = <<>> THEN <<>>
    ELSE IF Head(infos).slug \in used THEN Dedup(Tail(infos), used)
    ELSE <<Head(infos)>> \o Dedup(Tail(infos), used \cup {Head(infos).slug})

\* The last loop of discover: the identifier matched no returned repository.
Unmatched(result, identifier) ==
    ~\E k \in DOMAIN result :
        \/ result[k].slug = identifier
        \/ result[k].path = identifier
        \/ Contains(result[k].slug, identifier)

DiscInit ==
    /\ paths \in UNION {[1..k -> Args] : k \in 0..MaxPaths}
    /\ fs \in FsTrees
    /\ git \in {[n \in Nodes |-> IF fs[n] = "repo" THEN g[n] ELSE GitBroken] :
                  g \in [{n \in Nodes : fs[n] = "repo"} -> GitAnswers]}
    /\ scanned = 0
    /\ repo_paths = <<>>
    /\ disc_errors = <<>>
    /\ disc_warnings = <<>>
    /\ disc_ret = <<>>
    /\ disc_pc = "scanning"

\* find_repo_paths goes through its next path; a read_dir that fails makes
\* it, and discover, return the error.
ScanPath ==
    /\ disc_pc = "scanning"
    /\ scanned < Len(base_paths)
    /\ \E ord \in ReadDirOrders :
         LET r == ScanOnePath(base_paths[scanned + 1], ord)
         IN IF r.ok
              THEN /\ repo_paths' = repo_paths \o r.found
                   /\ scanned' = scanned + 1
                   /\ disc_pc' = "scanning"
              ELSE /\ repo_paths' = repo_paths
                   /\ scanned' = scanned
                   /\ disc_pc' = "failed"
    /\ UNCHANGED <<paths, fs, git, disc_errors, disc_warnings, disc_ret>>

\* discover_all_repos after find_repo_paths returned Ok: every root is
\* resolved, a root that fails is logged, and the list is returned.
ResolvePlain ==
    /\ disc_pc = "scanning"
    /\ scanned = Len(base_paths)
    /\ repo_identifiers = <<>>
    /\ LET all == ResolveAll(repo_paths)
       IN /\ disc_ret' = all.repos
          /\ disc_errors' = all.errors
    /\ disc_pc' = "done"
    /\ UNCHANGED <<paths, fs, git, scanned, repo_paths, disc_warnings>>

\* discover in smart-matching mode after find_repo_paths_from_base returned
\* Ok: the roots are resolved and filtered, deduplicated, and the identifiers
\* without a match are reported.
ResolveMatching ==
    /\ disc_pc = "scanning"
    /\ scanned = Len(base_paths)
    /\ repo_identifiers # <<>>
    /\ LET matched_repos == SelectSeq(ResolveAll(repo_paths).repos, MatchesIdentifier)
           result == Dedup(matched_repos, {})
           NoMatch(identifier) == Unmatched(result, identifier)
       IN /\ disc_ret' = result
          /\ disc_warnings' = SelectSeq(repo_identifiers, NoMatch)
    /\ disc_pc' = "done"
    /\ UNCHANGED <<paths, fs, git, scanned, repo_paths, disc_errors>>

\* --------------------------------------------------------- parse_repospec
\* Result<String>
Ok(v) == [ok |-> TRUE, val |-> v]
Err == [ok |-> FALSE, val |-> <<>>]

\* str::strip_suffix(p).unwrap_or(s): one trailing p is removed.
StripSuffixOr(s, p) == IF EndsWith(s, p) THEN SubSeq(s, 1, Len(s) - Len(p)) ELSE s

\* str::splitn(2, c): the text before the first c and the text after it, or
\* the whole text when there is no c.
RECURSIVE SplitN2(_, _, _)
SplitN2(s, c, cur) ==
    IF s = <<>> THEN <<cur>>
    ELSE IF Head(s) = c THEN <<cur, Tail(s)>>
    ELSE SplitN2(Tail(s), c, Append(cur, Head(s)))

\* Joins the pieces of a list into one string.
RECURSIVE Concat(_)
Concat(pieces) == IF pieces = <<>> THEN <<>> ELSE Head(pieces) \o Concat(Tail(pieces))

\* extract_org_repo_from_path(path)
extract_org_repo_from_path(path0) ==
    LET path == TrimStartMatches(StripSuffixOr(path0, DotGit), "/")
        parts == SplitOn(path, "/", <<>>)
    IN IF Len(parts) < 2 THEN Err
       ELSE IF parts[1] = <<>> \/ parts[2] = <<>> THEN Err
       ELSE Ok(parts[1] \o <<"/">> \o parts[2])

HttpsScheme == <<"h", "t", "t", "p", "s", ":", "/", "/">>
HttpScheme == <<"h", "t", "t", "p", ":", "/", "/">>
SshScheme == <<"s", "s", "h", ":", "/", "/">>
GitScheme == <<"g", "i", "t", ":", "/", "/">>

\* The arm of parse_repospec for a URL with a scheme: the path is what
\* follows the first "/" after the scheme.
PathAfterScheme(input, scheme) ==
    LET parts == SplitN2(StripPrefix(input, scheme).val, "/", <<>>)
    IN IF Len(parts) = 2 THEN extract_org_repo_from_path(parts[2]) ELSE Err

\* parse_repospec without the arm for git:// URLs.
parse_repospec_no_git_scheme(input0) ==
    LET trimmed == Trim(input0)
        input == StripSuffixOr(trimmed, DotGit)
    IN IF trimmed = <<>> THEN Err
       ELSE IF StartsWith(input, HttpsScheme) THEN PathAfterScheme(input, HttpsScheme)
       ELSE IF StartsWith(input, HttpScheme) THEN PathAfterScheme(input, HttpScheme)
       ELSE IF StartsWith(input, SshScheme) THEN PathAfterScheme(input, SshScheme)
       ELSE IF Contains(input, <<"@">>) /\ Contains(input, <<":">>)
         THEN extract_org_repo_from_path(SplitN2(input, ":", <<>>)[2])
       ELSE LET parts == SplitN2(input, "/", <<>>)
            IN IF /\ Len(parts) = 2 /\ parts[1] # <<>> /\ parts[2] # <<>>
                  /\ ~Contains(parts[1], <<":">>) /\ ~Contains(parts[2], <<":">>)
                 THEN Ok(input) ELSE Err

\* parse_repospec(input)
parse_repospec(input0) ==
    LET trimmed == Trim(input0)
        input == StripSuffixOr(trimmed, DotGit)
    IN IF trimmed = <<>> THEN Err
       ELSE IF StartsWith(input, HttpsScheme) THEN PathAfterScheme(input, HttpsScheme)
       ELSE IF StartsWith(input, HttpScheme) THEN PathAfterScheme(input, HttpScheme)
       ELSE IF StartsWith(input, SshScheme) THEN PathAfterScheme(input, SshScheme)
       ELSE IF StartsWith(input, GitScheme) THEN PathAfterScheme(input, GitScheme)
       ELSE IF Contains(input, <<"@">>) /\ Contains(input, <<":">>)
         THEN LET parts == SplitN2(input, ":", <<>>)
              IN IF Len(parts) = 2 THEN extract_org_repo_from_path(parts[2]) ELSE Err
       ELSE IF Contains(input, <<"/">>)
         THEN LET parts == SplitN2(input, "/", <<>>)
              IN IF /\ Len(parts) = 2 /\ parts[1] # <<>> /\ parts[2] # <<>>
                    /\ ~Contains(parts[1], <<":">>) /\ ~Contains(parts[2], <<":">>)
                   THEN Ok(input) ELSE Err
       ELSE Err

\* The strings of the model. One written in a supported form is made of a
\* form, a host, an org, a repo, extra path components or none, ".git" at
\* its end or not, and whitespace around it or not.
GithubHost == <<"g", "i", "t", "h", "u", "b", ".", "c", "o", "m">>
Hosts == {GithubHost, <<"h">>}
OrgNames == {<<"o">>, <<"a", "b">>}
RepoNames == {<<"r">>, <<"g", "i", "t">>, <<"x", ".", "y">>}
UrlForms == {"https", "http", "scp", "ssh", "git"}
Paddings == {"none", "lead", "both"}
ExtraPath == <<"/", "t", "/", "m">>
GitUser == <<"g", "i", "t", "@">>

SpecText(form, host, org, repo, extra, dotgit, pad) ==
    LET slug == org \o <<"/">> \o repo
        base == CASE form = "plain" -> slug
                  [] form = "https" -> Concat(<<HttpsScheme, host, <<"/">>, slug>>)
                  [] form = "http"  -> Concat(<<HttpScheme, host, <<"/">>, slug>>)
                  [] form = "scp"   -> Concat(<<GitUser, host, <<":">>, slug>>)
                  [] form = "ssh"   -> Concat(<<SshScheme, GitUser, host, <<"/">>, slug>>)
                  [] form = "git"   -> Concat(<<GitScheme, host, <<"/">>, slug>>)
        body == Concat(<<base, IF extra THEN ExtraPath ELSE <<>>, IF dotgit THEN DotGit ELSE <<>>>>)
    IN CASE pad = "none" -> body
         [] pad = "lead" -> <<" ">> \o body
         [] pad = "both" -> Concat(<<<<"\n", " ">>, body, <<" ">>>>)

RepoSpec(form, host, org, repo, extra, dotgit, pad) ==
    [text |-> SpecText(form, host, org, repo, extra, dotgit, pad), kind |-> "repospec",
     form |-> form, host |-> host, org |-> org, repo |-> repo,
     extra |-> extra, dotgit |-> dotgit, pad |-> pad]

RepoSpecs ==
    {RepoSpec("plain", <<>>, o, r, FALSE, g, w) :
        o \in OrgNames, r \in RepoNames, g \in BOOLEAN, w \in Paddings}
    \cup {RepoSpec(f, h, o, r, e, g, w) :
        f \in UrlForms, h \in Hosts, o \in OrgNames, r \in RepoNames,
        e \in BOOLEAN, g \in BOOLEAN, w \in Paddings}

\* A string that is in no supported form; form says what is wrong with it.
Invalid(text, why) ==
    [text |-> text, kind |-> "invalid", form |-> why, host |-> <<>>, org |-> <<>>,
     repo |-> <<>>, extra |-> FALSE, dotgit |-> FALSE, pad |-> "none"]

InvalidSpecs ==
    {Invalid(<<>>, "empty"),
     Invalid(<<" ", "\n", " ">>, "whitespace"),
     Invalid(<<"r">>, "no slash"),
     Invalid(<<"i", "n", "v", "a", "l", "i", "d", "-", "u", "r", "l">>, "no slash"),
     Invalid(GitUser \o GithubHost \o <<":", "r">>, "no slash"),
     Invalid(<<"/", "r">>, "empty org"),
     Invalid(GitUser \o GithubHost \o <<":", "/", "r">>, "empty org"),
     Invalid(<<"o", "/">>, "empty repo"),
     Invalid(HttpsScheme \o GithubHost \o <<"/", "o", "/">>, "empty repo"),
     Invalid(HttpsScheme \o GithubHost \o <<"/", "o">>, "empty repo"),
     Invalid(GitUser \o GithubHost \o <<":">>, "no path"),
     Invalid(HttpsScheme \o GithubHost, "no path"),
     Invalid(HttpsScheme \o GithubHost \o <<"/">>, "no path"),
     Invalid(SshScheme \o GitUser \o GithubHost, "no path"),
     Invalid(GitScheme \o GithubHost, "no path")}

NoUrl == Invalid(<<>>, "none")
NotParsed == [called |-> FALSE, ok |-> FALSE, val |-> <<>>]

ParseInit ==
    /\ url_arg \in RepoSpecs \cup InvalidSpecs
    /\ repospec_ret = NotParsed
    /\ git_url_ret = NotParsed

ParseRepospec ==
    /\ ~repospec_ret.called
    /\ LET r == parse_repospec(url_arg.text)
       IN repospec_ret' = [called |-> TRUE, ok |-> r.ok, val |-> r.val]
    /\ UNCHANGED <<url_arg, git_url_ret>>

ParseGitUrl ==
    /\ ~git_url_ret.called
    /\ LET r == parse_git_url(url_arg.text)
       IN git_url_ret' = [called |-> TRUE, ok |-> r.some, val |-> r.val]
    /\ UNCHANGED <<url_arg, repospec_ret>>

\* ------------------------------------------------------------------ clone
REMOTE_URLS == <<"ssh://git@github.com", "https://github.com">>

\* The lines git status --porcelain prints in the model, each with what it
\* reports: an untracked file, a modified file, and an added file named "??".
StatusUntracked == [text |-> <<"?", "?", " ", "f">>, kind |-> "untracked"]
StatusModified == [text |-> <<" ", "M", " ", "g">>, kind |-> "modified"]
StatusAdded == [text |-> <<"A", " ", " ", "?", "?">>, kind |-> "added"]
StatusLines == {StatusUntracked, StatusModified, StatusAdded}

NoClone == [dir |-> "none", versioning |-> FALSE, remote |-> "", sshkey |-> "none", status |-> <<>>]

\* One git command that was run: for git clone the remote and whether
\* GIT_SSH_COMMAND carried the key; ok is its outcome.
Ran(cmd, remote, key, ok) == [cmd |-> cmd, remote |-> remote, key |-> key, ok |-> ok]

\* status_str.lines().any(|line| line.starts_with("??")), taken on any "??".
has_untracked_anywhere(status) ==
    \E i \in DOMAIN status : Contains(status[i].text, <<"?", "?">>)

\* status_str.lines().any(|line| line.starts_with("??"))
has_untracked(status) ==
    \E i \in DOMAIN status : StartsWith(status[i].text, <<"?", "?">>)

\* !status_str.is_empty()
has_changes(status) == status # <<>>

\* clone_new_repo that makes the second attempt whatever the first one gave.
AfterFirstAttemptAlwaysSecond(ok) == "attempt2"

\* Where clone_new_repo goes after the first attempt.
AfterFirstAttempt(ok) == IF ok THEN "cloned" ELSE "attempt2"

CloneInit ==
    /\ clone_in \in
         [dir : {"absent", "empty", "nonempty"}, versioning : BOOLEAN,
          remote : {REMOTE_URLS[1], REMOTE_URLS[2]}, sshkey : {"none", "key", "error"},
          status : UNION {[1..k -> StatusLines] : k \in 0..MaxStatusLines}]
    /\ clone_pc = "main"
    /\ git_log = <<>>
    /\ clone_ret = "running"

\* main: the target exists and is not empty, or not.
EnterMain ==
    /\ clone_pc = "main"
    /\ clone_pc' = IF clone_in.dir = "nonempty" THEN "update" ELSE "clone"
    /\ UNCHANGED <<clone_in, git_log, clone_ret>>

\* main returns the error err.
Fails(err) == clone_pc' = "done" /\ clone_ret' = err

\* A git command ends: the next step, or the error of git().
GitRuns(cmd, remote, key, ok, next) ==
    /\ git_log' = Append(git_log, Ran(cmd, remote, key, ok))
    /\ IF ok THEN clone_pc' = next /\ clone_ret' = IF next = "done" THEN "ok" ELSE clone_ret
             ELSE Fails("git exited with an error")

\* update_existing_repo up to the decision on the status output.
GitStatus ==
    /\ clone_pc = "update"
    /\ \E chdir \in BOOLEAN :
         IF ~chdir
           THEN Fails("Failed to set current directory") /\ git_log' = git_log
           ELSE /\ git_log' = Append(git_log, Ran("status", "", FALSE, TRUE))
                /\ IF has_untracked(clone_in.status)
                     THEN Fails("Cannot update repository: untracked files present")
                     ELSE /\ clone_pc' = IF has_changes(clone_in.status) THEN "stash" ELSE "checkout"
                          /\ clone_ret' = clone_ret
    /\ UNCHANGED clone_in

GitStash ==
    /\ clone_pc = "stash"
    /\ \E ok \in BOOLEAN : GitRuns("stash", "", FALSE, ok, "checkout")
    /\ UNCHANGED clone_in

UpdateCheckout ==
    /\ clone_pc = "checkout"
    /\ \E ok \in BOOLEAN : GitRuns("checkout", "", FALSE, ok, "pull")
    /\ UNCHANGED clone_in

\* git pull, and the Ok(()) of update_existing_repo and of main.
GitPull ==
    /\ clone_pc = "pull"
    /\ \E ok \in BOOLEAN : GitRuns("pull", "", FALSE, ok, "done")
    /\ UNCHANGED clone_in

\* clone_new_repo: the revision, from git ls-remote with --versioning.
FetchRevision ==
    /\ clone_pc = "clone"
    /\ IF clone_in.versioning
         THEN \E ok \in BOOLEAN :
                /\ git_log' = Append(git_log, Ran("ls-remote", clone_in.remote, FALSE, ok))
                /\ IF ok THEN clone_pc' = "findkey" /\ clone_ret' = clone_ret
                         ELSE Fails("Could not find SHA for HEAD")
         ELSE clone_pc' = "findkey" /\ UNCHANGED <<git_log, clone_ret>>
    /\ UNCHANGED clone_in

\* find_ssh_key_for_org(repospec)?
FindSshKey ==
    /\ clone_pc = "findkey"
    /\ IF clone_in.sshkey = "error"
         THEN Fails("Failed to load configuration file")
         ELSE clone_pc' = "attempt1" /\ clone_ret' = clone_ret
    /\ UNCHANGED <<clone_in, git_log>>

\* The attempt on cli.remote, with the key if there is one.
FirstAttempt ==
    /\ clone_pc = "attempt1"
    /\ \E ok \in BOOLEAN :
         /\ git_log' = Append(git_log, Ran("clone", clone_in.remote, clone_in.sshkey = "key", ok))
         /\ clone_pc' = AfterFirstAttempt(ok)
    /\ UNCHANGED <<clone_in, clone_ret>>

\* The attempt on REMOTE_URLS[1], and the error when it fails too.
SecondAttempt ==
    /\ clone_pc = "attempt2"
    /\ \E ok \in BOOLEAN :
         /\ git_log' = Append(git_log, Ran("clone", REMOTE_URLS[2], clone_in.sshkey = "key", ok))
         /\ IF ok THEN clone_pc' = "cloned" /\ clone_ret' = clone_ret
                  ELSE Fails("Failed to clone repository")
    /\ UNCHANGED clone_in

\* set_current_dir and git checkout of the revision.
CloneCheckout ==
    /\ clone_pc = "cloned"
    /\ \E chdir \in BOOLEAN :
         IF ~chdir
           THEN Fails("Failed to change directory into cloned repo") /\ git_log' = git_log
           ELSE \E ok \in BOOLEAN : GitRuns("checkout", "", FALSE, ok, "clean")
    /\ UNCHANGED clone_in

\* git clean -xfd, and the Ok(()) of clone_new_repo and of main.
GitClean ==
    /\ clone_pc = "clean"
    /\ \E ok \in BOOLEAN : GitRuns("clean", "", FALSE, ok, "done")
    /\ UNCHANGED clone_in

\* ------------------------------------------------- claims: ParallelExecutor
Somes == {i \in DOMAIN repos : work_fn[i] = "some"}
Nones == {i \in DOMAIN repos : work_fn[i] = "none"}
Errs  == {i \in DOMAIN repos : work_fn[i] = "err"}
LinesLogged == SeqSum([i \in DOMAIN repos |-> eprintln_log[repos[i].slug]])

\* C1: when execute has returned, its result holds the value of every
\* descriptor whose invocation returned Ok(Some) exactly once and nothing for
\* a descriptor that skipped or failed; every failure wrote exactly one
\* diagnostic line and nothing else did; with exactly one failure and no skip
\* that is N-1 results and one line.
ExecuteIsolatesFailures ==
    (exec_pc = "returned" /\ method = "execute") =>
        /\ Len(exec_ret) = Cardinality(Somes)
        /\ \A i \in DOMAIN repos :
             /\ Count(exec_ret, WorkValue(repos[i])) = IF i \in Somes THEN 1 ELSE 0
             /\ eprintln_log[repos[i].slug] = IF i \in Errs THEN 1 ELSE 0
        /\ (Cardinality(Errs) = 1 /\ Nones = {}) =>
             (Len(exec_ret) = Len(repos) - 1 /\ LinesLogged = 1)

\* C1 witness: execute returned over the largest list with one failure, no skip.
ExecuteOneFailureReturned ==
    /\ exec_pc = "returned" /\ method = "execute"
    /\ Len(repos) = MaxRepos /\ Cardinality(Errs) = 1 /\ Nones = {}
    /\ Len(exec_ret) = MaxRepos - 1

\* C2: when execute_all has returned, its result has one outcome per
\* descriptor: the value of a descriptor whose invocation succeeded and the
\* failure of one whose invocation failed.
ExecuteAllKeepsEveryOutcome ==
    (exec_pc = "returned" /\ method = "execute_all") =>
        /\ Len(exec_ret) = Len(repos)
        /\ \A i \in DOMAIN repos :
             exec_ret[i] = IF i \in Errs
                             THEN [tag |-> "Err", val |-> WorkError(repos[i])]
                             ELSE [tag |-> "Ok", val |-> WorkValue(repos[i])]

\* C2 witness: execute_all returned with a failure and a success among its outcomes.
ExecuteAllMixedReturned ==
    /\ exec_pc = "returned" /\ method = "execute_all"
    /\ Len(repos) = MaxRepos /\ Errs # {} /\ Somes # {}
    /\ Len(exec_ret) = MaxRepos

\* C3: never do two invocations hold the accumulator at once, and when
\* execute_with_state has returned the accumulator holds the slug of every
\* invocation that pushed one, once, and nothing else.
StateUpdatesAreExclusiveAndKept ==
    /\ Cardinality({i \in DOMAIN repos : task_pc[i] = "locked"}) <= 1
    /\ (exec_pc = "returned" /\ method = "execute_with_state") =>
         /\ Len(exec_ret) = Cardinality({i \in DOMAIN repos : touches[i]})
         /\ \A i \in DOMAIN repos :
              Count(exec_ret, repos[i].slug) = IF touches[i] THEN 1 ELSE 0

\* C3 witness: execute_with_state returned after every invocation pushed its slug.
AllSlugsAccumulated ==
    /\ exec_pc = "returned" /\ method = "execute_with_state"
    /\ Len(repos) = MaxRepos /\ \A i \in DOMAIN repos : touches[i]
    /\ Len(exec_ret) = MaxRepos


\* An invocation of work_fn starts in this step for the i-th descriptor.
InvocationStarts(i) == task_pc[i] # "running" /\ task_pc'[i] = "running"

\* One step of a call seen from the descriptors: an invocation starts only
\* for a descriptor that had none yet, and the list is what it was.
InvocationStep ==
    /\ \A i \in DOMAIN repos : InvocationStarts(i) => task_pc[i] = "pending"
    /\ \A i \in DOMAIN repos : task_pc[i] # "pending" => task_pc'[i] # "pending"
    /\ repos' = repos

\* C29: in one call of any of the three methods work_fn is invoked once for
\* every descriptor and never again, whatever the other invocations
\* returned; the call returns only when every invocation has finished; the
\* list of descriptors does not change.
EveryDescriptorInvokedOnce ==
    /\ [][InvocationStep]_vars
    /\ [](exec_pc = "returned" => \A i \in DOMAIN repos : task_pc[i] = "done")

\* C29 witness: a call on the longest list returned after the first
\* invocation had failed and the others had finished.
ReturnedAfterFailureAndOthers ==
    /\ exec_pc = "returned"
    /\ Len(repos) = MaxRepos
    /\ work_fn[1] = "err"
    /\ \A i \in DOMAIN repos : task_pc[i] = "done"

\* ---------------------------------------------------------- claims: ls-owners
\* The request of x is in flight: its task is blocked in req.send().
InFlight(x) == x \in DOMAIN own_pc /\ own_pc[x] = "sending"

\* C4: the task of a repository never holds the lock on the ETag cache while
\* its request is in flight.
CacheLockFreeDuringFetch ==
    \A x \in OrgSlugs : InFlight(x) => cache_lock # x

\* C5: when the request of one repository never returns, the task of every
\* other repository of the list is eventually done.
StuckTaskStallsOnlyItsWorker ==
    \A x \in OrgSlugs : \A y \in OrgSlugs \ {x} :
        (stuck = {x} /\ y \in Range(org_repos)) => <>(y \in DOMAIN own_pc /\ own_pc[y] = "done")

Printed == main_pc \in {"printed", "saved", "failed", "exited"}

\* C6: the printed entries are the collected results, each once, in strictly
\* increasing order of (status rank, slug): unowned before partial before
\* owned, and slug ascending within a status. A strictly increasing sequence
\* is determined by the set of its entries, whatever the order they came in.
ReportOrderIsCanonical ==
    Printed =>
        /\ Len(report) = Len(results)
        /\ Range(report) = Range(results)
        /\ \A i, j \in DOMAIN report :
             i < j =>
               \/ rank(report[i].status) < rank(report[j].status)
               \/ /\ rank(report[i].status) = rank(report[j].status)
                  /\ StrLess(report[i].slug, report[j].slug)
        /\ \A i \in DOMAIN report :
             report[i].status \in {"unowned", "partial", "owned"}

\* C6 witness: two repositories were printed in another order than collected.
ReportReordered ==
    Printed /\ Len(report) = 2 /\ report # results

Terminated == main_pc \in {"failed", "exited"}

\* C7: the exit code is non-zero exactly when a collected result has a status
\* other than owned.
ExitCodeIffNotOwned ==
    Terminated =>
        (exit_code # 0 <=> \E i \in DOMAIN results : results[i].status # "owned")

\* The analysis of x failed: its request got no response, an error status, an
\* unexpected status or a body that does not decode.
AnalysisFailed(x) ==
    /\ x \in DOMAIN own_pc /\ own_pc[x] = "done"
    /\ \/ ~response[x].sent
       \/ response[x].status \notin {200, 304}
       \/ ~response[x].decodable /\ response[x].status = 200

\* C8: a repository whose analysis failed is in neither the results nor the
\* report, exactly one diagnostic line was written for it, and the exit code
\* is what the other repositories (and the saving of the cache) determine.
FailedRepoIsAbsent ==
    /\ \A x \in OrgSlugs :
         AnalysisFailed(x) =>
            /\ own_log[x] = 1
            /\ ~own_out[x].keep
            /\ Printed => /\ \A i \in DOMAIN report : report[i].slug # x
                          /\ \A i \in DOMAIN results : results[i].slug # x
    /\ Terminated =>
         exit_code = IF main_pc = "failed" THEN 1
                     ELSE IF \E y \in Range(org_repos) :
                               ~AnalysisFailed(y) /\ own_out[y].item.status # "owned"
                            THEN 1 ELSE 0

\* C8 witness: the process exited after one analysis failed and another was reported.
FailedAndReportedExited ==
    /\ main_pc = "exited"
    /\ \E x \in Range(org_repos) : AnalysisFailed(x)
    /\ Len(report) = 1

\* C23: a repository GitHub answered 404 for is reported as unowned with
\* MISSING_CODEOWNERS and no diagnostic line, and a repository whose request
\* was answered (with a body that decodes, for 200) has a diagnostic line only
\* for a status other than 200, 304 and 404.
NotFoundIsMissing ==
    \A x \in DOMAIN own_pc :
        (own_pc[x] = "done" /\ response[x].sent) =>
            /\ (response[x].status = 404) =>
                  /\ own_log[x] = 0
                  /\ own_out[x].keep
                  /\ own_out[x].item.status = "unowned"
                  /\ own_out[x].item.paths.text = MISSING_CODEOWNERS
            /\ (own_log[x] > 0 /\ (response[x].status = 200 => response[x].decodable)) =>
                  (response[x].status \notin {200, 304, 404})

\* The response of x was a 200 that carried an etag header.
GotNewETag(x) ==
    x \in DOMAIN response /\ response[x].sent /\ response[x].status = 200
        /\ response[x].etag # "none"

\* The fetch of x returns in this step.
FetchReturns(x) == x \in DOMAIN own_pc /\ own_pc[x] = "sending" /\ own_pc'[x] # "sending"

\* One step of the run seen from the cache.
CacheStep ==
    /\ \A x \in OrgSlugs :
          FetchReturns(x) =>
              etag_cache' = IF GotNewETag(x)'
                              THEN MapInsert(etag_cache, x, response'[x].etag)
                              ELSE etag_cache
    /\ (\A x \in OrgSlugs : ~FetchReturns(x)) => (etag_cache' = etag_cache)
    /\ (saved_cache' # saved_cache) => (saved_cache' = etag_cache)

OriginUnparsable(root) ==
    git[NodeOfPath(root)].toplevel_ok /\ git[NodeOfPath(root)].github = <<>>
OriginParsable(root) ==
    git[NodeOfPath(root)].toplevel_ok /\ git[NodeOfPath(root)].github # <<>>
Returned(info) == \E k \in DOMAIN disc_ret : disc_ret[k] = info
PlainMode == repo_identifiers = <<>>

UnreadableDirectoryIsScoped ==
    (\E n \in Nodes : fs[n] = "noread") => disc_pc # "failed"

\* The slug find_repo_root_and_slug must give a root, from what its origin
\* stands for.
SlugOfRoot(root) ==
    IF OriginParsable(root) THEN git[NodeOfPath(root)].github ELSE UnknownSlug
Resolvable(root) == git[NodeOfPath(root)].toplevel_ok
DescriptorOf(root) == [path |-> Toplevel(root), slug |-> SlugOfRoot(root)]

\* The identifier equals the slug or occurs in it.
SlugMatches(slug, identifier) ==
    \/ slug = identifier
    \/ \E i \in 0..(Len(slug) - Len(identifier)) :
           SubSeq(slug, i + 1, i + Len(identifier)) = identifier

\* The found roots discover may return: all that resolve in plain mode,
\* those whose slug matches an identifier in smart-matching mode.
Candidate(k) ==
    /\ Resolvable(repo_paths[k])
    /\ PlainMode \/ \E i \in DOMAIN repo_identifiers :
                        SlugMatches(SlugOfRoot(repo_paths[k]), repo_identifiers[i])

\* C11: when discover has returned, no two returned descriptors have the same
\* slug, and each returned descriptor is the one of the first found root, in
\* scan order, that resolves to its slug.
ReturnedSlugsAreDistinct ==
    disc_pc = "done" =>
        /\ \A i, j \in DOMAIN disc_ret : i # j => disc_ret[i].slug # disc_ret[j].slug
        /\ \A j \in DOMAIN disc_ret :
             \E k \in DOMAIN repo_paths :
                /\ Candidate(k)
                /\ disc_ret[j] = DescriptorOf(repo_paths[k])
                /\ \A h \in 1..(k - 1) :
                     Candidate(h) => SlugOfRoot(repo_paths[h]) # disc_ret[j].slug

\* How many directory levels r lies below base: 0 for base itself, -1 when r
\* is not at or below base.
RelDepth(base, r) ==
    IF r = base THEN 0
    ELSE IF StartsWith(r, base \o <<"/">>)
      THEN 1 + Count(SubSeq(r, Len(base) + 2, Len(r)), "/")
    ELSE -1

\* The roots the two-level scan of the path p must find: the roots at most two
\* levels below p with no root above them at or below p.
ExpectedRoots(p) ==
    {r \in Nodes :
        /\ fs[r] = "repo"
        /\ RelDepth(NodeOfPath(p), r) \in 0..2
        /\ \A a \in Nodes :
             (RelDepth(NodeOfPath(p), a) >= 0 /\ RelDepth(a, r) >= 1) => fs[a] = "dir"}

RECURSIVE ExpectedCount(_)
ExpectedCount(n) ==
    IF n = 0 THEN 0 ELSE Cardinality(ExpectedRoots(base_paths[n])) + ExpectedCount(n - 1)

\* C12: as long as no read_dir failed, the roots found for each scanned path
\* are exactly the path itself when it is a root, and otherwise the roots one
\* level below it and the roots two levels below it under a plain directory,
\* each once; a root three levels down or below another root is not found.
ScanFindsTwoLevelsExactly ==
    disc_pc # "failed" =>
        /\ Len(repo_paths) = ExpectedCount(scanned)
        /\ \A i \in 1..scanned :
             {NodeOfPath(repo_paths[k]) : k \in (ExpectedCount(i - 1) + 1)..ExpectedCount(i)}
                 = ExpectedRoots(base_paths[i])

\* C12 witness: discover over "." returned with ./a/x as the only root found
\* although ./a/y/d, three levels down, is a root too.
DeepRootNotFound ==
    /\ disc_pc = "done"
    /\ paths = <<ArgDot>>
    /\ fs[NodeX] = "repo" /\ fs[NodeD] = "repo"
    /\ repo_paths = <<NodeX>>

\* C13: when discover has returned in smart-matching mode, the returned slugs
\* are exactly the slugs of the found roots that equal or contain an
\* identifier, every returned descriptor is the one of such a root, and the
\* warnings are the identifiers no found root matches; discover fails only
\* when a directory cannot be listed, never for an unmatched identifier.
SmartMatchingFiltersBySlug ==
    /\ (disc_pc = "done" /\ ~PlainMode) =>
          /\ {disc_ret[j].slug : j \in DOMAIN disc_ret}
                 = {SlugOfRoot(repo_paths[k]) : k \in {h \in DOMAIN repo_paths : Candidate(h)}}
          /\ \A j \in DOMAIN disc_ret :
               \E k \in DOMAIN repo_paths :
                   Candidate(k) /\ disc_ret[j] = DescriptorOf(repo_paths[k])
          /\ \A i \in DOMAIN repo_identifiers :
               (\E w \in DOMAIN disc_warnings : disc_warnings[w] = repo_identifiers[i])
                   <=> ~\E k \in DOMAIN repo_paths :
                          /\ Resolvable(repo_paths[k])
                          /\ SlugMatches(SlugOfRoot(repo_paths[k]), repo_identifiers[i])
          /\ \A w \in DOMAIN disc_warnings :
               \E i \in DOMAIN repo_identifiers : disc_warnings[w] = repo_identifiers[i]
    /\ disc_pc = "failed" => \E n \in Nodes : fs[n] = "noread"

\* C13 witness: discover returned in smart-matching mode with a repository
\* whose slug contains an identifier and a warning for another identifier.
MatchedAndWarned ==
    /\ disc_pc = "done"
    /\ ~PlainMode
    /\ \E j \in DOMAIN disc_ret, i \in DOMAIN repo_identifiers :
           disc_ret[j].slug # repo_identifiers[i]
           /\ SlugMatches(disc_ret[j].slug, repo_identifiers[i])
    /\ disc_warnings # <<>>

\* ------------------------------------------------- claims: load_ownership

\* What a rule line stands for: its pattern with "*" read as "/", and whether
\* owners follow the pattern.
NormalPattern(l) == IF l.pattern = <<"*">> THEN <<"/">> ELSE l.pattern
IsRule(l) == l.kind = "rule"
IsValidEntry(l) == l.kind = "rule" /\ l.owners # <<>>
FileRead == loaded.called /\ codeowners.exists /\ codeowners.readable
Entries == loaded.ownership.entries

\* C14: load_ownership returns Missing exactly when there is no file, Empty
\* exactly when the file is read and no line of it is a valid entry, Present
\* exactly when the file is read and some line is a valid entry, and an error
\* only for a file that exists and cannot be read.
LoadClassifies ==
    loaded.called =>
        /\ (loaded.ok /\ loaded.ownership.kind = "Missing") <=> ~codeowners.exists
        /\ (loaded.ok /\ loaded.ownership.kind = "Empty") <=>
               /\ codeowners.exists /\ codeowners.readable
               /\ \A i \in DOMAIN codeowners.lines : ~IsValidEntry(codeowners.lines[i])
        /\ (loaded.ok /\ loaded.ownership.kind = "Present") <=>
               /\ codeowners.exists /\ codeowners.readable
               /\ \E i \in DOMAIN codeowners.lines : IsValidEntry(codeowners.lines[i])
        /\ ~loaded.ok <=> (codeowners.exists /\ ~codeowners.readable)

\* C14 witness: a file of a comment and a blank line was loaded as Empty.
CommentsOnlyLoadedEmpty ==
    /\ loaded.called /\ loaded.ok
    /\ codeowners.lines = <<LineComment, LineBlank>>
    /\ loaded.ownership = Empty

\* C15 as stated: every line that is neither blank nor a comment gives an
\* entry under its first token ("*" read as "/"), and the owners stored under
\* a pattern are the tokens that follow it on one of its lines.
EveryRuleLineGivesEntry ==
    FileRead =>
        /\ DOMAIN Entries =
               {NormalPattern(codeowners.lines[i]) :
                   i \in {j \in DOMAIN codeowners.lines : IsRule(codeowners.lines[j])}}
        /\ \A key \in DOMAIN Entries :
             \E i \in DOMAIN codeowners.lines :
                 /\ IsRule(codeowners.lines[i])
                 /\ NormalPattern(codeowners.lines[i]) = key
                 /\ Entries[key] = codeowners.lines[i].owners

\* C15 amended: the lines that give an entry are the rule lines with at least
\* one token after the pattern; each gives an entry under its first token ("*"
\* read as "/") with the following tokens, in order and without the leading
\* "@", as owners; blank lines, comments and lines of one token give none.
RuleLineWithOwnersGivesEntry ==
    FileRead =>
        /\ DOMAIN Entries =
               {NormalPattern(codeowners.lines[i]) :
                   i \in {j \in DOMAIN codeowners.lines : IsValidEntry(codeowners.lines[j])}}
        /\ \A key \in DOMAIN Entries :
             \E i \in DOMAIN codeowners.lines :
                 /\ IsValidEntry(codeowners.lines[i])
                 /\ NormalPattern(codeowners.lines[i]) = key
                 /\ Entries[key] = codeowners.lines[i].owners

\* C15 witness: a file of a pattern without owners and of "* @ali" was loaded
\* with "/" as its only pattern.
OwnerlessLineSkipped ==
    /\ FileRead
    /\ codeowners.lines = <<LineDirOnly, LineStar>>
    /\ DOMAIN Entries = {<<"/">>}
    /\ Entries[<<"/">>] = <<Ali>>

\* The last line of the file that satisfies Test and has the pattern key.
LastLineOf(key, Test(_)) ==
    CHOOSE i \in DOMAIN codeowners.lines :
        /\ Test(codeowners.lines[i]) /\ NormalPattern(codeowners.lines[i]) = key
        /\ \A j \in DOMAIN codeowners.lines :
             (Test(codeowners.lines[j]) /\ NormalPattern(codeowners.lines[j]) = key) => j <= i

\* C16 as stated: the owners stored under a pattern are those of the last
\* line of the file with that pattern.
LastPatternLineWins ==
    FileRead =>
        \A key \in DOMAIN Entries :
            /\ \E i \in DOMAIN codeowners.lines :
                   IsRule(codeowners.lines[i]) /\ NormalPattern(codeowners.lines[i]) = key
            /\ Entries[key] = codeowners.lines[LastLineOf(key, IsRule)].owners

\* C16 amended: the owners stored under a pattern are those of the last line
\* with that pattern among the lines that have an owner after the pattern;
\* the owners of the earlier lines are gone.
LastEntryLineWins ==
    FileRead =>
        \A key \in DOMAIN Entries :
            /\ \E i \in DOMAIN codeowners.lines :
                   IsValidEntry(codeowners.lines[i]) /\ NormalPattern(codeowners.lines[i]) = key
            /\ Entries[key] = codeowners.lines[LastLineOf(key, IsValidEntry)].owners

\* C16 witness: "* @ali" then "/ @bob" was loaded with bob alone under "/".
SecondLineReplacedFirst ==
    /\ FileRead
    /\ codeowners.lines = <<LineStar, LineRoot>>
    /\ Entries[<<"/">>] = <<Bob>>

\* ---------------------------------------- claims: determine_unowned_paths

\* The pattern is, character by character, the beginning of "/" + rel.
PatternCovers(pat, f) ==
    /\ Len(pat) <= Len(f.rel) + 1
    /\ \A i \in 1..Len(pat) : pat[i] = (IF i = 1 THEN "/" ELSE f.rel[i - 1])

\* "/" for a file without a directory, "/" + first directory + "/" otherwise.
Bucket(f) == IF f.dirs = <<>> THEN <<"/">> ELSE <<"/">> \o f.dirs[1] \o <<"/">>

\* C17: determine_unowned_paths returns exactly the buckets of the code files
\* that no pattern of the table covers.
UnownedAreBucketsOfUncovered ==
    unowned_dirs.called =>
        unowned_dirs.dirs =
            {Bucket(code_files[i]) :
                i \in {j \in DOMAIN code_files :
                          ~\E pat \in DOMAIN table : PatternCovers(pat, code_files[j])}}

\* C17 witness: with the pattern /d/ alone, d/b.py is covered and src/a/b.py
\* gives the bucket /src/.
CoveredFileGivesNoBucket ==
    /\ unowned_dirs.called
    /\ DOMAIN table = {<<"/", "d", "/">>}
    /\ code_files = <<FileD, FileSrc>>
    /\ unowned_dirs.dirs = {<<"/", "s", "r", "c", "/">>}

\* ------------------------------------------------------ claims: status

\* C18: every collected result is unowned exactly when the ownership fetched
\* for its repository is Missing or Empty, with the matching marker as paths;
\* it is owned or partial only when the ownership is Present, and it is owned
\* when the table holds the pattern "/", which is a prefix of "/" + p for
\* every code file p, so that no bucket is uncovered.
StatusFollowsCoverage ==
    \A i \in DOMAIN results :
        LET r == results[i]
            own == ownership[r.slug]
        IN /\ r.status = "unowned" <=> own.kind \in {"Missing", "Empty"}
           /\ own.kind = "Missing" => r.paths.text = MISSING_CODEOWNERS
           /\ own.kind = "Empty" => r.paths.text = EMPTY_CODEOWNERS
           /\ r.status \in {"owned", "partial"} <=> own.kind = "Present"
           /\ (own.kind = "Present" /\ <<"/">> \in DOMAIN own.entries) => r.status = "owned"

\* -------------------------------------------- claims: build_repo_mapping
MappingKeys == {built.map[i].key : i \in DOMAIN built.map}
StringValue(x) == [kind |-> "String", v |-> <<x>>]
SequenceValue(xs) == [kind |-> "Sequence", v |-> xs]
KeyOf(text) == CHOOSE k \in BuildKeys : k.text = text

\* C21: the mapping holds exactly the keys of entries and of unowned, each
\* once; a key of entries has its owner as a string when it has one owner,
\* the list of its owners when it has several and "UNOWNED" when it has none;
\* a key of unowned alone has "UNOWNED".
MappingHoldsEveryKeyOnce ==
    built.called =>
        /\ MappingKeys = DOMAIN build_entries \cup build_unowned
        /\ Len(built.map) = Cardinality(DOMAIN build_entries \cup build_unowned)
        /\ \A i \in DOMAIN built.map :
              LET key == built.map[i].key
                  val == built.map[i].val
              IN IF key \in DOMAIN build_entries
                   THEN LET owners == build_entries[key]
                        IN /\ Len(owners) = 0 => val = StringValue(UNOWNED)
                           /\ Len(owners) = 1 => val = StringValue(owners[1])
                           /\ Len(owners) > 1 => val = SequenceValue(owners)
                   ELSE val = StringValue(UNOWNED)

\* C21 witness: one mapping with a single owner, a list of owners, an entry
\* without owners, and a bucket that is no key of entries.
MappingWithEveryKindOfValue ==
    /\ built.called
    /\ DOMAIN build_entries = {KeyRoot.text, KeyA.text, KeyDocs.text}
    /\ build_unowned = {KeyAB.text, KeyA.text}
    /\ \E i, j, k, l \in DOMAIN built.map :
          /\ built.map[i] = [key |-> KeyRoot.text, val |-> StringValue(Ali)]
          /\ built.map[j] = [key |-> KeyDocs.text, val |-> SequenceValue(<<Ali, Bob>>)]
          /\ built.map[k] = [key |-> KeyA.text, val |-> StringValue(UNOWNED)]
          /\ built.map[l] = [key |-> KeyAB.text, val |-> StringValue(UNOWNED)]

\* C22: the keys of the mapping are in one order fixed by the set of keys:
\* "/" before every other key, then by ascending number of non-empty
\* segments, and keys with the same number in ascending byte order.
KeyOrderIsCanonical ==
    built.called =>
        \A i, j \in DOMAIN built.map :
            i < j =>
                LET a == KeyOf(built.map[i].key)
                    b == KeyOf(built.map[j].key)
                IN \/ a = KeyRoot
                   \/ b # KeyRoot /\ a.depth < b.depth
                   \/ b # KeyRoot /\ a.depth = b.depth /\ a.lex < b.lex

\* C22 witness: the keys "/", "/docs/" and "/a/b/" come out in that order,
\* the last one taken from the buckets.
DocsBeforeDeeperKey ==
    /\ built.called
    /\ build_unowned = {KeyAB.text}
    /\ [i \in DOMAIN built.map |-> built.map[i].key] = <<KeyRoot.text, KeyDocs.text, KeyAB.text>>

\* The code files every repository of the organisation holds: a.py and
\* d/b.py.
RepoCodeFiles == <<FileTop.rel, FileD.rel>>

\* C30: for every reported repository with a table, no bucket that
\* determine_unowned_paths gives for its code files is a pattern of the
\* table; when its status is partial every such bucket is a key of its
\* mapping with the value "UNOWNED", and the mapping holds an "UNOWNED".
PartialMappingShowsEveryBucket ==
    \A i \in DOMAIN results :
        LET r == results[i]
            own == ownership[r.slug]
            buckets == determine_unowned_paths(own.entries, RepoCodeFiles)
            m == r.paths.mapping
        IN own.kind = "Present" =>
             /\ buckets \cap DOMAIN own.entries = {}
             /\ r.status = "partial" =>
                   /\ \A b \in buckets :
                         \E k \in DOMAIN m : m[k].key = b /\ m[k].val = StringValue(UNOWNED)
                   /\ \E k \in DOMAIN m : m[k].val = StringValue(UNOWNED)

\* ------------------------------------------------ claims: the URL parsers
Slug(u) == u.org \o <<"/">> \o u.repo

\* C25: parse_repospec returns org/repo for a string written in one of the
\* six forms, whatever the host, the ".git" at its end, the whitespace
\* around it and the extra path components of a URL, and an error for an
\* empty or whitespace-only string, a string without a slash, an empty org,
\* an empty repo and a URL without a path.
RepospecGivesOrgAndRepo ==
    repospec_ret.called =>
        IF url_arg.kind = "repospec"
          THEN repospec_ret.ok /\ repospec_ret.val = Slug(url_arg)
          ELSE ~repospec_ret.ok

\* C25 witness: a git:// URL on another host, with extra path components,
\* ".git" at its end and whitespace around it, gave its org and repo.
DecoratedGitUrlParsed ==
    /\ repospec_ret.called /\ repospec_ret.ok
    /\ url_arg.kind = "repospec" /\ url_arg.form = "git" /\ url_arg.host # GithubHost
    /\ url_arg.extra /\ url_arg.dotgit /\ url_arg.pad = "both"

\* The string is git@github.com:owner/repo or https://github.com/owner/repo,
\* with or without ".git" at its end.
IsGithubUrl(u) ==
    /\ u.kind = "repospec" /\ u.form \in {"scp", "https"} /\ u.host = GithubHost
    /\ ~u.extra /\ u.pad = "none"

\* C26: parse_git_url returns owner/repo for a GitHub URL in the SSH or the
\* HTTPS form and None for every other string.
GitUrlIsGithubOwnerRepo ==
    git_url_ret.called =>
        IF IsGithubUrl(url_arg)
          THEN git_url_ret.ok /\ git_url_ret.val = Slug(url_arg)
          ELSE ~git_url_ret.ok

\* ------------------------------------------------------- claims: clone
ClonesRun == SelectSeq(git_log, LAMBDA e : e.cmd = "clone")
HasRun(cmd) == \E i \in DOMAIN git_log : git_log[i].cmd = cmd
UpdatePath == clone_in.dir = "nonempty"

\* C27: on the way of a new clone the first git clone is on the configured
\* remote and a second one, on https://github.com, is run only after the
\* first failed; main fails with "Failed to clone repository" exactly when
\* two attempts were made and both failed; checkout and clean are run only
\* after an attempt that succeeded; every attempt carries the key exactly
\* when one is configured for the org.
CloneFallsBackToHttps ==
    ~UpdatePath =>
        /\ Len(ClonesRun) <= 2
        /\ Len(ClonesRun) >= 1 => ClonesRun[1].remote = clone_in.remote
        /\ Len(ClonesRun) = 2 => ~ClonesRun[1].ok /\ ClonesRun[2].remote = "https://github.com"
        /\ clone_ret = "Failed to clone repository"
              <=> (Len(ClonesRun) = 2 /\ ~ClonesRun[1].ok /\ ~ClonesRun[2].ok)
        /\ \A i \in DOMAIN git_log :
              git_log[i].cmd \in {"checkout", "clean"} =>
                  \E j \in 1..(i - 1) : git_log[j].cmd = "clone" /\ git_log[j].ok
        /\ \A i \in DOMAIN ClonesRun : ClonesRun[i].key <=> clone_in.sshkey = "key"
        /\ (clone_pc = "attempt2" \/ Len(ClonesRun) = 2) => ~ClonesRun[1].ok

\* C27 witness: with a key configured the attempt on the configured remote
\* failed, the one on https://github.com succeeded, and the revision was
\* checked out and the workspace cleaned.
FallbackCloneSucceeded ==
    /\ clone_ret = "ok"
    /\ clone_in.sshkey = "key" /\ clone_in.remote = "ssh://git@github.com"
    /\ git_log = <<Ran("clone", "ssh://git@github.com", TRUE, FALSE),
                   Ran("clone", "https://github.com", TRUE, TRUE),
                   Ran("checkout", "", FALSE, TRUE), Ran("clean", "", FALSE, TRUE)>>

\* The status output reports an untracked file.
Untracked == \E i \in DOMAIN clone_in.status : clone_in.status[i].kind = "untracked"

\* The commands of the log, in order.
Commands == [i \in DOMAIN git_log |-> git_log[i].cmd]
IsPrefix(a, b) == Len(a) <= Len(b) /\ SubSeq(b, 1, Len(a)) = a

\* C28: on a target that exists and is not empty no git clone is run; with
\* an untracked file the update fails and none of stash, checkout and pull
\* is run; without one, stash is run exactly when the status output is not
\* empty, the commands run in the order status, stash (if any), checkout,
\* pull, and each is run only after the one before it succeeded.
UpdateRunsStashCheckoutPull ==
    UpdatePath =>
        /\ ~HasRun("clone") /\ ~HasRun("ls-remote") /\ ~HasRun("clean")
        /\ Untracked =>
              /\ ~HasRun("stash") /\ ~HasRun("checkout") /\ ~HasRun("pull")
              /\ HasRun("status") => clone_ret = "Cannot update repository: untracked files present"
        /\ ~Untracked =>
              /\ clone_ret # "Cannot update repository: untracked files present"
              /\ IsPrefix(Commands,
                          IF clone_in.status # <<>>
                            THEN <<"status", "stash", "checkout", "pull">>
                            ELSE <<"status", "checkout", "pull">>)
              /\ (HasRun("status") /\ clone_in.status # <<>> /\ clone_pc # "stash") => HasRun("stash")
        /\ \A i \in DOMAIN git_log : i < Len(git_log) => git_log[i].ok

\* C28 witness: the status reported only an added file named "??": the
\* change was stashed, the revision checked out and pulled.
StashedThenPulled ==
    /\ UpdatePath /\ clone_ret = "ok"
    /\ clone_in.status = <<StatusAdded>>
    /\ Commands = <<"status", "stash", "checkout", "pull">>

\* --------------------------------------------- claims: gather_code_files

\* The file is code by what it is made of: named Dockerfile or Makefile, or
\* with an extension whose lowercase spelling is accepted.
IsCode(f) ==
    \/ ~f.ext.some /\ f.stem \in {Dockerfile, Makefile}
    \/ f.ext.some /\ f.ext.lower \in CodeExtensions
InGitSubtree(f) == f.dirs # <<>> /\ f.dirs[1] \in {DotGitDir, DotGithubDir}
BelowSkippedDir(f) == \E i \in DOMAIN f.dirs : f.dirs[i] \in {DotGitDir, DotGithubDir}

\* C19: gather_code_files returns the path relative to the repository root,
\* with every directory component, of each code file outside the .git and
\* .github subtrees, and nothing else.
GatherReturnsRelativePaths ==
    gathered.called =>
        BagToSet(gathered.files) =
            {f.dirs \o <<FileName(f)>> : f \in {g \in worktree : IsCode(g) /\ ~InGitSubtree(g)}}

\* C20: a file that gather_code_files reaches is returned, under its file
\* name, exactly when it is named Dockerfile or Makefile or its extension is,
\* whatever the case of its letters, one of the accepted ones.
CodeIsDecidedByNameAndExtension ==
    gathered.called =>
        \A f \in worktree :
            ~BelowSkippedDir(f) => (BagIn(<<FileName(f)>>, gathered.files) <=> IsCode(f))

\* C20 witness: a file with the extension PY was returned and one named
\* makefile, or with the extension md, was not.
UppercaseExtensionIsCode ==
    /\ gathered.called
    /\ \E f \in worktree :
          /\ ~BelowSkippedDir(f) /\ f.ext.some /\ f.ext.val = <<"P", "Y">>
          /\ BagIn(<<FileName(f)>>, gathered.files)

\* ------------------------------------------------------- specifications
\* The variables of a subsystem that a specification does not run.
ExecIdle ==
    /\ method = "execute" /\ repos = <<>> /\ work_fn = <<>> /\ touches = <<>>
    /\ task_pc = <<>> /\ task_out = <<>> /\ busy = 0 /\ eprintln_log = <<>>
    /\ state_mutex = 0 /\ guard_copy = <<>> /\ shared_state = <<>>
    /\ exec_ret = <<>> /\ exec_pc = "idle"

OwnIdle ==
    /\ org_repos = <<>> /\ etag_cache = EmptyMap /\ cache_lock = NoLock
    /\ own_pc = <<>> /\ response = <<>> /\ ownership = <<>> /\ own_out = <<>> /\ own_busy = 0
    /\ own_log = <<>> /\ stuck = {} /\ main_pc = "idle" /\ results = <<>>
    /\ report = <<>> /\ saved_cache = EmptyMap /\ exit_code = -1

DiscIdle ==
    /\ paths = <<>> /\ fs = <<>> /\ git = <<>> /\ scanned = 0 /\ repo_paths = <<>>
    /\ disc_errors = <<>> /\ disc_warnings = <<>> /\ disc_ret = <<>> /\ disc_pc = "idle"

LoadIdle == codeowners = NoFile /\ loaded = NotLoaded

CoverIdle == table = EmptyMap /\ code_files = <<>> /\ unowned_dirs = NotDetermined

GatherIdle == worktree = {} /\ gathered = NotGathered

BuildIdle == build_entries = EmptyMap /\ build_unowned = {} /\ built = NotBuilt

ParseIdle == url_arg = NoUrl /\ repospec_ret = NotParsed /\ git_url_ret = NotParsed

CloneIdle == clone_in = NoClone /\ clone_pc = "idle" /\ git_log = <<>> /\ clone_ret = "idle"

ToolIdle == BuildIdle /\ ParseIdle /\ CloneIdle

LocalIdle == LoadIdle /\ CoverIdle /\ GatherIdle /\ ToolIdle

\* One call of a method of ParallelExecutor.
Init == ExecInit /\ OwnIdle /\ DiscIdle /\ LocalIdle
Next ==
    \/ \E i \in DOMAIN repos : StartTask(i) /\ UNCHANGED <<ownVars, discVars, localVars>>
    \/ \E i \in DOMAIN repos : LockState(i) /\ UNCHANGED <<ownVars, discVars, localVars>>
    \/ \E i \in DOMAIN repos : PushState(i) /\ UNCHANGED <<ownVars, discVars, localVars>>
    \/ \E i \in DOMAIN repos : FinishTask(i) /\ UNCHANGED <<ownVars, discVars, localVars>>
    \/ ExecReturn /\ UNCHANGED <<ownVars, discVars, localVars>>
Spec == Init /\ [][Next]_vars

\* One call of RepoDiscovery::discover.
DiscoverInit == DiscInit /\ ExecIdle /\ OwnIdle /\ LocalIdle
DiscoverNext ==
    \/ ScanPath /\ UNCHANGED <<execVars, ownVars, localVars>>
    \/ ResolvePlain /\ UNCHANGED <<execVars, ownVars, localVars>>
    \/ ResolveMatching /\ UNCHANGED <<execVars, ownVars, localVars>>
DiscoverSpec == DiscoverInit /\ [][DiscoverNext]_vars

\* One call of load_ownership on a repository root.
LoadSpecInit ==
    LoadInit /\ ExecIdle /\ OwnIdle /\ DiscIdle /\ CoverIdle /\ GatherIdle /\ ToolIdle
LoadNext ==
    \/ LoadOwnership /\ UNCHANGED <<execVars, ownVars, discVars, coverVars, gatherVars, toolVars>>
LoadSpec == LoadSpecInit /\ [][LoadNext]_vars

\* One call of determine_unowned_paths.
CoverSpecInit ==
    CoverInit /\ ExecIdle /\ OwnIdle /\ DiscIdle /\ LoadIdle /\ GatherIdle /\ ToolIdle
CoverNext ==
    \/ DetermineUnowned /\ UNCHANGED <<execVars, ownVars, discVars, loadVars, gatherVars, toolVars>>
CoverSpec == CoverSpecInit /\ [][CoverNext]_vars

\* One call of gather_code_files on a repository root.
GatherSpecInit ==
    GatherInit /\ ExecIdle /\ OwnIdle /\ DiscIdle /\ LoadIdle /\ CoverIdle /\ ToolIdle
GatherNext ==
    \/ GatherCodeFiles /\ UNCHANGED <<execVars, ownVars, discVars, loadVars, coverVars, toolVars>>
GatherSpec == GatherSpecInit /\ [][GatherNext]_vars

\* One call of build_repo_mapping.
BuildSpecInit ==
    BuildInit /\ ExecIdle /\ OwnIdle /\ DiscIdle /\ LoadIdle /\ CoverIdle /\ GatherIdle
        /\ ParseIdle /\ CloneIdle
BuildNext ==
    \/ BuildMapping
          /\ UNCHANGED <<execVars, ownVars, discVars, loadVars, coverVars, gatherVars,
                         parseVars, cloneVars>>
BuildSpec == BuildSpecInit /\ [][BuildNext]_vars

\* One call of parse_repospec and one of parse_git_url on the same string.
ParseSpecInit ==
    ParseInit /\ ExecIdle /\ OwnIdle /\ DiscIdle /\ LoadIdle /\ CoverIdle /\ GatherIdle
        /\ BuildIdle /\ CloneIdle
ParseNext ==
    \/ ParseRepospec
          /\ UNCHANGED <<execVars, ownVars, discVars, loadVars, coverVars, gatherVars,
                         buildVars, cloneVars>>
    \/ ParseGitUrl
          /\ UNCHANGED <<execVars, ownVars, discVars, loadVars, coverVars, gatherVars,
                         buildVars, cloneVars>>
ParseSpec == ParseSpecInit /\ [][ParseNext]_vars

\* One run of clone after the repository specification is parsed.
CloneSpecInit ==
    CloneInit /\ ExecIdle /\ OwnIdle /\ DiscIdle /\ LoadIdle /\ CoverIdle /\ GatherIdle
        /\ BuildIdle /\ ParseIdle
CloneOthers == <<execVars, ownVars, discVars, loadVars, coverVars, gatherVars, buildVars, parseVars>>
CloneNext ==
    \/ EnterMain /\ UNCHANGED CloneOthers
    \/ GitStatus /\ UNCHANGED CloneOthers
    \/ GitStash /\ UNCHANGED CloneOthers
    \/ UpdateCheckout /\ UNCHANGED CloneOthers
    \/ GitPull /\ UNCHANGED CloneOthers
    \/ FetchRevision /\ UNCHANGED CloneOthers
    \/ FindSshKey /\ UNCHANGED CloneOthers
    \/ FirstAttempt /\ UNCHANGED CloneOthers
    \/ SecondAttempt /\ UNCHANGED CloneOthers
    \/ CloneCheckout /\ UNCHANGED CloneOthers
    \/ GitClean /\ UNCHANGED CloneOthers
CloneSpec == CloneSpecInit /\ [][CloneNext]_vars

\* One run of ls-owners after the list of repositories is known.
OwnersInit == OwnInit /\ ExecIdle /\ DiscIdle /\ LocalIdle
OwnersNext ==
    \/ \E x \in OrgSlugs : StartOwner(x) /\ UNCHANGED <<execVars, discVars, localVars>>
    \/ \E x \in OrgSlugs : LockAndSend(x) /\ UNCHANGED <<execVars, discVars, localVars>>
    \/ \E x \in OrgSlugs : Respond(x) /\ UNCHANGED <<execVars, discVars, localVars>>
    \/ \E x \in OrgSlugs : BuildRepo(x) /\ UNCHANGED <<execVars, discVars, localVars>>
    \/ SortAndPrint /\ UNCHANGED <<execVars, discVars, localVars>>
    \/ SaveCache /\ UNCHANGED <<execVars, discVars, localVars>>
    \/ SaveCacheFails /\ UNCHANGED <<execVars, discVars, localVars>>
    \/ Exit /\ UNCHANGED <<execVars, discVars, localVars>>
OwnersSpec == OwnersInit /\ [][OwnersNext]_vars

\* A run of ls-owners in which the request of at most one repository never
\* returns, under a fair scheduler: a task that can take a step takes it, and a task
\* waiting for the lock gets it if the lock is free again and again.
OwnersStuckInit ==
    OwnInitWith({{}} \cup {{x} : x \in OrgSlugs}) /\ ExecIdle /\ DiscIdle /\ LocalIdle
OwnersFairness ==
    /\ \A x \in OrgSlugs :
         /\ WF_vars(StartOwner(x) /\ UNCHANGED <<execVars, discVars, localVars>>)
         /\ SF_vars(LockAndSend(x) /\ UNCHANGED <<execVars, discVars, localVars>>)
         /\ WF_vars(Respond(x) /\ UNCHANGED <<execVars, discVars, localVars>>)
         /\ WF_vars(BuildRepo(x) /\ UNCHANGED <<execVars, discVars, localVars>>)
    /\ WF_vars(SortAndPrint /\ UNCHANGED <<execVars, discVars, localVars>>)
    /\ WF_vars((SaveCache \/ SaveCacheFails) /\ UNCHANGED <<execVars, discVars, localVars>>)
    /\ WF_vars(Exit /\ UNCHANGED <<execVars, discVars, localVars>>)
OwnersFairSpec == OwnersStuckInit /\ [][OwnersNext]_vars /\ OwnersFairness

====
